---- MODULE Spec2Model ----
(***************************************************************************)
(* A model of github.com/simp-lee/vector: the Collection (a map from       *)
(* document ID to *Document guarded by one RWMutex), its CRUD operations,  *)
(* the similarity search, the text segmenter and vector normalisation.     *)
(*                                                                         *)
(* Spec has one caller, and every operation is one step from its call to   *)
(* its return.  SpecLock has NumProcs concurrent callers, and an operation *)
(* is cut at the lock and at each call of the embedding function.          *)
(* SpecAlias has one caller that keeps the pointers it passed and was      *)
(* given, the objects living in heap.  SpecSearch runs the search, and     *)
(* SpecMulti the search for many queries with its goroutines interleaved,  *)
(* on stores drawn from a bounded set.  SpecSplit runs splitText,          *)
(* SpecRank getTopNSimilarEmbeddings goroutine by goroutine, SpecNew       *)
(* NewCollection, SpecAggregate AggregateResults, SpecIDs the making and   *)
(* the parsing of the candidates' IDs.  SpecAny is Spec with an embedding  *)
(* function that may return more or fewer vectors than texts, SpecFan the  *)
(* search for many queries with every goroutine of its three fan-outs,     *)
(* SpecBetween the search for many queries beside a caller that deletes.   *)
(*                                                                         *)
(* Representation.                                                         *)
(*  - A Go string of code points is a sequence; the empty string is <<>>.  *)
(*    Document contents are drawn from the prefixes of 1,2,3,..., so the   *)
(*    text of a window tells the offset it was cut at.                     *)
(*  - documents maps an ID to the Document object stored under it (Nil:  *)
(*    no entry).  In Spec the caller hands over documents it does not     *)
(*    write to afterwards, so an object is identified with its value.     *)
(*    Metadata, which no operation of the collection reads or writes, is   *)
(*    left out of the Document record.                                     *)
(*  - A float64 is a fixed-point number with unit 1/Scale; the generator's *)
(*    vectors are chosen so that their norm is an integer and the          *)
(*    division of normalizeVector is exact.                                *)
(***************************************************************************)
EXTENDS Integers, Sequences, FiniteSets, TLC

\* ---------------------------------------------------------------- bounds
MaxLen == 2
MaxChunk == 2
MaxSegs == 3
MaxTopN == 1
NumProcs == 2
NumDocObjs == 2
NumSegObjs == 2
MaxStoreSegs == 2
MaxSearchTopN == 2
MaxQueries == 2
SplitMaxChunk == 4
SplitMaxLen == 10
MaxCandidates == 3
MaxResults == 3
MaxIDLen == 2
MaxIndex == 11

\* ------------------------------------------------------- representation
Scale == 10

Nil == [ID |-> <<>>, Content |-> <<>>, Segments |-> <<>>, nil |-> TRUE]
IDs == {<<>>, <<"a">>, <<"b">>}
Text(n) == [i \in 1..n |-> i]
Contents == {Text(n) : n \in 0..MaxLen}
GenVecs == {<<0, 0>>, <<3, 4>>}

NoErr == "nil"
ErrIDRequired == "document ID is required"
ErrExists == "document with ID already exists"
ErrContentRequired == "document content is required"
ErrNotFound == "document with ID not found"
ErrZeroVector == "cannot normalize a zero vector"
ErrGenerator == "embedding function error"
Panic == "panic: index out of range"

VARIABLES ChunkSize, ChunkOverlap, documents, documentsLock, pc, net, ret,
          heap, multi, returned, fan

vars == <<ChunkSize, ChunkOverlap, documents, documentsLock, pc, net, ret, heap, multi, returned,
          fan>>

\* ------------------------------------------------------------ vector.go
RECURSIVE SumSq(_)
SumSq(v) == IF v = <<>> THEN 0 ELSE Head(v) * Head(v) + SumSq(Tail(v))

Sqrt(n) == CHOOSE r \in 0..n : r * r <= n /\ (r + 1) * (r + 1) > n

\* normalizeVector leaving the vector as it is.
normalizeVectorKeeps(vector) ==
    IF SumSq(vector) = 0
    THEN [err |-> ErrZeroVector, vec |-> <<>>]
    ELSE [err |-> NoErr, vec |-> vector]

normalizeVector(vector) ==
    LET sum == SumSq(vector)
    IN  IF sum = 0
        THEN [err |-> ErrZeroVector, vec |-> <<>>]
        ELSE [err |-> NoErr,
              vec |-> [i \in 1..Len(vector) |-> (vector[i] * Scale) \div Sqrt(sum)]]

\* -------------------------------------------------------- collection.go
Segment(text, embedding) == [Text |-> text, Embedding |-> embedding]

Document(id, content, segments) ==
    [ID |-> id, Content |-> content, Segments |-> segments, nil |-> FALSE]

\* The documents a caller passes in: any ID and content, carrying no segment
\* or one of the caller's making, its embedding not of unit length.
Carried == {<<>>, <<Segment(<<1>>, <<3, 4>>)>>}
InputDocs == {Document(id, content, segs) : id \in IDs, content \in Contents, segs \in Carried}

\* What the embedding function answers to n texts while it keeps its contract:
\* an error, or one vector per text.
Response(err, vecs) == [err |-> err, vecs |-> vecs, none |-> FALSE]
Responses(n) == {Response(TRUE, <<>>)} \cup {Response(FALSE, v) : v \in [1..n -> GenVecs]}

NoResponse == [err |-> FALSE, vecs |-> <<>>, none |-> TRUE]

\* splitText stepping by ChunkSize, the overlap left out.
RECURSIVE splitFromNoOverlap(_, _)
splitFromNoOverlap(runes, i) ==
    IF i < Len(runes)
    THEN LET end == IF i + ChunkSize > Len(runes) THEN Len(runes) ELSE i + ChunkSize
         IN  <<SubSeq(runes, i + 1, end)>> \o splitFromNoOverlap(runes, i + ChunkSize)
    ELSE <<>>

\* splitText stopping with the first chunk that reaches the end of the text.
RECURSIVE splitFromStopsAtEnd(_, _)
splitFromStopsAtEnd(runes, i) ==
    IF i < Len(runes)
    THEN LET end == IF i + ChunkSize > Len(runes) THEN Len(runes) ELSE i + ChunkSize
         IN  <<SubSeq(runes, i + 1, end)>>
             \o (IF end = Len(runes) THEN <<>>
                 ELSE splitFromStopsAtEnd(runes, i + ChunkSize - ChunkOverlap))
    ELSE <<>>

RECURSIVE splitFrom(_, _)
splitFrom(runes, i) ==
    IF i < Len(runes)
    THEN LET end == IF i + ChunkSize > Len(runes) THEN Len(runes) ELSE i + ChunkSize
         IN  <<SubSeq(runes, i + 1, end)>> \o splitFrom(runes, i + ChunkSize - ChunkOverlap)
    ELSE <<>>

splitText(text) == splitFrom(text, 0)

NewCollection ==
    /\ ChunkSize \in 1..MaxChunk
    /\ ChunkOverlap \in 0..(ChunkSize - 1)
    /\ documents = [id \in IDs |-> Nil]

Keys == {id \in IDs : documents[id] # Nil}

\* What the last call was, the error it returned and the number gen of calls
\* of the embedding function it made; for EmbedDocuments also the order its
\* loop took through the map and the number n of documents it had gone
\* through when it returned.
Return(op, err, gen) == [op |-> op, err |-> err, gen |-> gen, n |-> 0, order |-> <<>>]

\* addLoop going on to the next embedding when one cannot be normalised.
RECURSIVE addLoopSkipsZero(_, _, _, _)
addLoopSkipsZero(segments, embeddings, i, acc) ==
    IF i > Len(embeddings) THEN [err |-> NoErr, segs |-> acc]
    ELSE LET norm == normalizeVector(embeddings[i])
         IN  IF norm.err # NoErr THEN addLoopSkipsZero(segments, embeddings, i + 1, acc)
             ELSE IF i > Len(segments) THEN [err |-> Panic, segs |-> acc]
             ELSE addLoopSkipsZero(segments, embeddings, i + 1,
                                   Append(acc, Segment(segments[i], norm.vec)))

\* The loop of AddDocument over the returned embeddings, from index i on:
\* the error it ends with and the value of doc.Segments at that point.
RECURSIVE addLoop(_, _, _, _)
addLoop(segments, embeddings, i, acc) ==
    IF i > Len(embeddings) THEN [err |-> NoErr, segs |-> acc]
    ELSE LET norm == normalizeVector(embeddings[i])
         IN  IF norm.err # NoErr THEN [err |-> norm.err, segs |-> acc]
             ELSE IF i > Len(segments) THEN [err |-> Panic, segs |-> acc]
             ELSE addLoop(segments, embeddings, i + 1,
                          Append(acc, Segment(segments[i], norm.vec)))

\* addDocument without the check that the ID is not present yet.
addDocumentOverwrites(doc, resp) ==
    IF doc.ID = <<>> THEN [err |-> ErrIDRequired, segs |-> doc.Segments]
    ELSE IF doc.Content = <<>> THEN [err |-> ErrContentRequired, segs |-> doc.Segments]
    ELSE IF resp.err THEN [err |-> ErrGenerator, segs |-> doc.Segments]
    ELSE addLoop(splitText(doc.Content), resp.vecs, 1, doc.Segments)

addDocument(doc, resp) ==
    IF doc.ID = <<>> THEN [err |-> ErrIDRequired, segs |-> doc.Segments]
    ELSE IF documents[doc.ID] # Nil THEN [err |-> ErrExists, segs |-> doc.Segments]
    ELSE IF doc.Content = <<>> THEN [err |-> ErrContentRequired, segs |-> doc.Segments]
    ELSE IF resp.err THEN [err |-> ErrGenerator, segs |-> doc.Segments]
    ELSE addLoop(splitText(doc.Content), resp.vecs, 1, doc.Segments)

\* AddDocument calls the embedding function only once the document has
\* passed its three checks; NoResponse stands for no call.
AddResponses(doc) ==
    IF doc.ID = <<>> \/ documents[doc.ID] # Nil \/ doc.Content = <<>>
    THEN {NoResponse}
    ELSE Responses(Len(splitText(doc.Content)))

AddDocument(doc, resp) ==
    LET out == addDocument(doc, resp)
    IN  /\ Len(out.segs) <= MaxSegs
        /\ documents' = IF out.err = NoErr
                        THEN [documents EXCEPT ![doc.ID] = [doc EXCEPT !.Segments = out.segs]]
                        ELSE documents
        /\ net' = IF out.err = NoErr THEN net + 1 ELSE net
        /\ ret' = Return("AddDocument", out.err, IF resp = NoResponse THEN 0 ELSE 1)
        /\ UNCHANGED <<ChunkSize, ChunkOverlap>>

GetDocument(id) == [doc |-> documents[id], ok |-> documents[id] # Nil]

\* deleteDocument accepting an ID that is not present (the built-in delete
\* does nothing then).
deleteDocumentAnyID(id) == NoErr

deleteDocument(id) == IF documents[id] = Nil THEN ErrNotFound ELSE NoErr

DeleteDocument(id) ==
    LET err == deleteDocument(id)
    IN  /\ documents' = IF err = NoErr THEN [documents EXCEPT ![id] = Nil] ELSE documents
        /\ net' = IF err = NoErr THEN net - 1 ELSE net
        /\ ret' = Return("DeleteDocument", err, 0)
        /\ UNCHANGED <<ChunkSize, ChunkOverlap>>

\* updateDocument inserting a document whose ID is not present.
updateDocumentUpserts(doc) ==
    IF doc.ID = <<>> THEN ErrIDRequired
    ELSE IF doc.Content = <<>> THEN ErrContentRequired
    ELSE NoErr

\* updateDocument without the check of the content.
updateDocumentAnyContent(doc) ==
    IF doc.ID = <<>> THEN ErrIDRequired
    ELSE IF documents[doc.ID] = Nil THEN ErrNotFound
    ELSE NoErr

updateDocument(doc) ==
    IF doc.ID = <<>> THEN ErrIDRequired
    ELSE IF documents[doc.ID] = Nil THEN ErrNotFound
    ELSE IF doc.Content = <<>> THEN ErrContentRequired
    ELSE NoErr

\* UpdateDocument keeping the segments of the stored document.
UpdateDocumentKeepsSegments(doc) ==
    LET err == updateDocument(doc)
    IN  /\ documents' = IF err = NoErr
                        THEN [documents EXCEPT
                                ![doc.ID] = [doc EXCEPT !.Segments = documents[doc.ID].Segments]]
                        ELSE documents
        /\ ret' = Return("UpdateDocument", err, 0)
        /\ UNCHANGED <<ChunkSize, ChunkOverlap, net>>

UpdateDocument(doc) ==
    LET err == updateDocument(doc)
    IN  /\ documents' = IF err = NoErr THEN [documents EXCEPT ![doc.ID] = doc] ELSE documents
        /\ ret' = Return("UpdateDocument", err, 0)
        /\ UNCHANGED <<ChunkSize, ChunkOverlap, net>>

\* The orders in which Go's range may visit the keys of the map.
Orders(S) == {f \in [1..Cardinality(S) -> S] : \A i, j \in DOMAIN f : f[i] = f[j] => i = j}

\* The first error of the normalisation loop of EmbedDocuments, from index i on.
RECURSIVE normalizeAll(_, _)
normalizeAll(embeddings, i) ==
    IF i > Len(embeddings) THEN NoErr
    ELSE IF normalizeVector(embeddings[i]).err # NoErr THEN normalizeVector(embeddings[i]).err
    ELSE normalizeAll(embeddings, i + 1)

\* The loop of EmbedDocuments over the segment texts, from index i on.
RECURSIVE embedLoop(_, _, _, _)
embedLoop(segments, embeddings, i, acc) ==
    IF i > Len(segments) THEN [err |-> NoErr, segs |-> acc]
    ELSE IF i > Len(embeddings) THEN [err |-> Panic, segs |-> acc]
    ELSE embedLoop(segments, embeddings, i + 1,
                   Append(acc, Segment(segments[i], normalizeVector(embeddings[i]).vec)))

\* One iteration of EmbedDocuments' loop over the documents.
embedDocument(doc, resp) ==
    IF doc.Content = <<>> THEN [err |-> ErrContentRequired, segs |-> doc.Segments]
    ELSE IF resp.err THEN [err |-> ErrGenerator, segs |-> doc.Segments]
    ELSE IF normalizeAll(resp.vecs, 1) # NoErr
         THEN [err |-> normalizeAll(resp.vecs, 1), segs |-> doc.Segments]
    ELSE embedLoop(splitText(doc.Content), resp.vecs, 1, doc.Segments)

\* embedDocuments going on to the next document after one has failed, and
\* returning the first error at the end.
RECURSIVE embedDocumentsGoesOn(_, _, _, _)
embedDocumentsGoesOn(order, resps, i, docs) ==
    IF i > Len(order) THEN [err |-> NoErr, docs |-> docs, done |-> i - 1, gen |-> i - 1]
    ELSE LET out == embedDocument(docs[order[i]], resps[order[i]])
             next == [docs EXCEPT ![order[i]].Segments = out.segs]
             rest == embedDocumentsGoesOn(order, resps, i + 1, next)
         IN  IF out.err # NoErr
             THEN [err |-> out.err, docs |-> rest.docs, done |-> i - 1, gen |-> i]
             ELSE rest

\* EmbedDocuments visiting the keys order[i], order[i+1], ...: the error it
\* returns, the map it leaves, the number of documents it went through and
\* the number of calls of the embedding function.
RECURSIVE embedDocuments(_, _, _, _)
embedDocuments(order, resps, i, docs) ==
    IF i > Len(order) THEN [err |-> NoErr, docs |-> docs, done |-> i - 1, gen |-> i - 1]
    ELSE LET out == embedDocument(docs[order[i]], resps[order[i]])
             next == [docs EXCEPT ![order[i]].Segments = out.segs]
         IN  IF out.err # NoErr
             THEN [err |-> out.err, docs |-> next, done |-> i - 1,
                   gen |-> IF out.err = ErrContentRequired THEN i - 1 ELSE i]
             ELSE embedDocuments(order, resps, i + 1, next)

EmbedDocuments(order, resps) ==
    LET out == embedDocuments(order, resps, 1, documents)
    IN  /\ \A id \in IDs : Len(out.docs[id].Segments) <= MaxSegs
        /\ documents' = out.docs
        /\ ret' = [Return("EmbedDocuments", out.err, out.gen) EXCEPT !.n = out.done, !.order = order]
        /\ UNCHANGED <<ChunkSize, ChunkOverlap, net>>

\* The answers of the embedding function to the calls of one EmbedDocuments,
\* by the document each call is for.
RECURSIVE ResponsesFor(_)
ResponsesFor(S) ==
    IF S = {} THEN {<<>>}
    ELSE LET id == CHOOSE x \in S : TRUE
         IN  {(id :> r) @@ f : r \in Responses(Len(splitText(documents[id].Content))),
                               f \in ResponsesFor(S \ {id})}

\* ---------------------------------------------------------------- search
ErrNoQueryEmbedding == "no embeddings generated for the query"
ErrNoEmbeddings == "no embeddings provided"
ErrLength == "query embedding length does not match embeddings"
PanicSlice == "panic: slice bounds out of range"

Digit == <<"0", "1", "2", "3", "4", "5", "6", "7", "8", "9">>

\* The verb %d: the decimal digits of n, after a minus sign if n is negative.
RECURSIVE Itoa(_)
Itoa(n) ==
    IF n < 0 THEN <<"-">> \o Itoa(-n)
    ELSE IF n < 10 THEN <<Digit[n + 1]>>
    ELSE Itoa(n \div 10) \o <<Digit[(n % 10) + 1]>>

\* fmt.Sprintf("%s_%d", docID, segmentIndex)
SegmentID(docID, segmentIndex) == docID \o <<"_">> \o Itoa(segmentIndex)

\* strings.Index in the place of strings.LastIndex.
LastIndexIsFirst(s, c) ==
    IF \E i \in DOMAIN s : s[i] = c
    THEN CHOOSE i \in DOMAIN s : s[i] = c /\ \A j \in DOMAIN s : s[j] = c => j >= i
    ELSE 0

\* strings.LastIndex for a one-character separator, counted from 1; 0: none.
LastIndex(s, c) ==
    IF \E i \in DOMAIN s : s[i] = c
    THEN CHOOSE i \in DOMAIN s : s[i] = c /\ \A j \in DOMAIN s : s[j] = c => j <= i
    ELSE 0

RECURSIVE DigitsValue(_, _)
DigitsValue(s, acc) ==
    IF s = <<>> THEN acc
    ELSE DigitsValue(Tail(s), 10 * acc + (CHOOSE d \in 0..9 : Digit[d + 1] = Head(s)))

\* strconv.Atoi: an optional sign and at least one decimal digit.
Atoi(s) ==
    LET signed == s # <<>> /\ s[1] \in {"+", "-"}
        digits == IF signed THEN Tail(s) ELSE s
    IN  IF digits = <<>> \/ \E i \in DOMAIN digits : \A d \in 1..10 : Digit[d] # digits[i]
        THEN [err |-> TRUE, val |-> 0]
        ELSE [err |-> FALSE,
              val |-> IF signed /\ s[1] = "-" THEN -DigitsValue(digits, 0)
                      ELSE DigitsValue(digits, 0)]

parseIDAndSegmentIndex(id) ==
    LET lastUnderscoreIndex == LastIndex(id, "_")
    IN  IF lastUnderscoreIndex = 0 THEN [err |-> TRUE, docID |-> <<>>, segmentIndex |-> 0]
        ELSE LET n == Atoi(SubSeq(id, lastUnderscoreIndex + 1, Len(id)))
             IN  IF n.err THEN [err |-> TRUE, docID |-> <<>>, segmentIndex |-> 0]
                 ELSE [err |-> FALSE,
                       docID |-> SubSeq(id, 1, lastUnderscoreIndex - 1),
                       segmentIndex |-> n.val]

\* The product of two numbers of unit 1/Scale has unit 1/Scale^2: scores are
\* kept in that unit and no digit is lost.
RECURSIVE Dot(_, _)
Dot(vec1, vec2) ==
    IF vec1 = <<>> THEN 0 ELSE Head(vec1) * Head(vec2) + Dot(Tail(vec1), Tail(vec2))

dotProduct(vec1, vec2) ==
    IF Len(vec1) # Len(vec2) THEN [err |-> TRUE, val |-> 0]
    ELSE [err |-> FALSE, val |-> Dot(vec1, vec2)]

Similarity(id, score) == [ID |-> id, Score |-> score]

\* The sort in ascending order.
RECURSIVE SortedPrefixesAscending(_, _, _)
SortedPrefixesAscending(score, rest, k) ==
    IF k <= 0 \/ rest = {} THEN {<<>>}
    ELSE UNION {{<<i>> \o t : t \in SortedPrefixesAscending(score, rest \ {i}, k - 1)} :
                  i \in {x \in rest : \A y \in rest : score[x] <= score[y]}}

\* The beginnings, of length k at most, of the orders sort.Slice can leave
\* the indices rest in: descending in score, equal scores in any order.
RECURSIVE SortedPrefixes(_, _, _)
SortedPrefixes(score, rest, k) ==
    IF k <= 0 \/ rest = {} THEN {<<>>}
    ELSE UNION {{<<i>> \o t : t \in SortedPrefixes(score, rest \ {i}, k - 1)} :
                  i \in {x \in rest : \A y \in rest : score[x] >= score[y]}}

\* getTopNSimilarEmbeddings without the comparison of the query's length with
\* the first embedding's.
getTopNSimilarEmbeddingsNoLengthCheck(queryEmbedding, embeddings, ids, topN) ==
    IF Len(embeddings) = 0 THEN {[err |-> ErrNoEmbeddings, sims |-> <<>>]}
    ELSE LET norm == normalizeVector(queryEmbedding)
         IN  IF norm.err # NoErr THEN {[err |-> norm.err, sims |-> <<>>]}
             ELSE LET similarities ==
                          [i \in 1..Len(embeddings) |->
                             LET d == dotProduct(norm.vec, embeddings[i])
                             IN  IF d.err THEN Similarity(<<>>, 0)
                                 ELSE Similarity(ids[i], d.val)]
                      n == IF topN > Len(similarities) THEN Len(similarities) ELSE topN
                  IN  IF n < 0 THEN {[err |-> PanicSlice, sims |-> <<>>]}
                      ELSE {[err |-> NoErr, sims |-> [j \in 1..Len(p) |-> similarities[p[j]]]] :
                              p \in SortedPrefixes([i \in DOMAIN similarities |-> similarities[i].Score],
                                                   DOMAIN similarities, n)}

\* getTopNSimilarEmbeddings: the results it can return.  A candidate whose
\* length differs from the query's leaves the zero Similarity in its place.
getTopNSimilarEmbeddings(queryEmbedding, embeddings, ids, topN) ==
    IF Len(embeddings) = 0 THEN {[err |-> ErrNoEmbeddings, sims |-> <<>>]}
    ELSE IF Len(queryEmbedding) # Len(embeddings[1]) THEN {[err |-> ErrLength, sims |-> <<>>]}
    ELSE LET norm == normalizeVector(queryEmbedding)
         IN  IF norm.err # NoErr THEN {[err |-> norm.err, sims |-> <<>>]}
             ELSE LET similarities ==
                          [i \in 1..Len(embeddings) |->
                             LET d == dotProduct(norm.vec, embeddings[i])
                             IN  IF d.err THEN Similarity(<<>>, 0)
                                 ELSE Similarity(ids[i], d.val)]
                      n == IF topN > Len(similarities) THEN Len(similarities) ELSE topN
                  IN  IF n < 0 THEN {[err |-> PanicSlice, sims |-> <<>>]}
                      ELSE {[err |-> NoErr, sims |-> [j \in 1..Len(p) |-> similarities[p[j]]]] :
                              p \in SortedPrefixes([i \in DOMAIN similarities |-> similarities[i].Score],
                                                   DOMAIN similarities, n)}

\* SegmentIndex stands for the identity of the Segment object pointed to.
Result(doc, segmentIndex, similarity) ==
    [Document |-> doc, Segment |-> doc.Segments[segmentIndex + 1],
     SegmentIndex |-> segmentIndex, Similarity |-> similarity]

\* The embeddings and ids of all segments, the map visited in the given order.
RECURSIVE Flatten(_)
Flatten(order) ==
    IF order = <<>> THEN <<>>
    ELSE LET doc == documents[Head(order)]
         IN  [i \in 1..Len(doc.Segments) |->
                [id |-> SegmentID(Head(order), i - 1), embedding |-> doc.Segments[i].Embedding]]
             \o Flatten(Tail(order))

\* The result lists the second half of GetTopNSimilarDocuments can make of
\* similarities: the ones that resolve, appended in any order and sorted.
Resolve(similarities) ==
    LET at == [j \in DOMAIN similarities |-> parseIDAndSegmentIndex(similarities[j].ID)]
        ok == {j \in DOMAIN similarities :
                 /\ ~at[j].err
                 /\ at[j].docID \in Keys
                 /\ at[j].segmentIndex >= 0
                 /\ at[j].segmentIndex < Len(documents[at[j].docID].Segments)}
    IN  {[j \in 1..Len(p) |-> Result(documents[at[p[j]].docID], at[p[j]].segmentIndex,
                                     similarities[p[j]].Score)] :
           p \in SortedPrefixes([j \in DOMAIN similarities |-> similarities[j].Score],
                                ok, Cardinality(ok))}

\* GetTopNSimilarDocuments going on without a query embedding: no results,
\* no error.
getTopNSimilarDocumentsInNoCheck(order, resp, topN) ==
    IF resp.err \/ Len(resp.vecs) = 0 THEN {[err |-> NoErr, results |-> <<>>]}
    ELSE LET flat == Flatten(order)
             tops == getTopNSimilarEmbeddings(resp.vecs[1],
                                              [i \in DOMAIN flat |-> flat[i].embedding],
                                              [i \in DOMAIN flat |-> flat[i].id], topN)
         IN  UNION {IF top.err # NoErr THEN {[err |-> top.err, results |-> <<>>]}
                    ELSE {[err |-> NoErr, results |-> r] : r \in Resolve(top.sims)} :
                      top \in tops}

\* GetTopNSimilarDocuments answering a store without segments with an empty
\* list.
getTopNSimilarDocumentsInEmptyList(order, resp, topN) ==
    IF resp.err THEN {[err |-> ErrGenerator, results |-> <<>>]}
    ELSE IF Len(resp.vecs) = 0 THEN {[err |-> ErrNoQueryEmbedding, results |-> <<>>]}
    ELSE LET flat == Flatten(order)
             tops == getTopNSimilarEmbeddings(resp.vecs[1],
                                              [i \in DOMAIN flat |-> flat[i].embedding],
                                              [i \in DOMAIN flat |-> flat[i].id], topN)
         IN  IF flat = <<>> THEN {[err |-> NoErr, results |-> <<>>]}
             ELSE UNION {IF top.err # NoErr THEN {[err |-> top.err, results |-> <<>>]}
                         ELSE {[err |-> NoErr, results |-> r] : r \in Resolve(top.sims)} :
                           top \in tops}

\* What GetTopNSimilarDocuments can return when the embedding function
\* answers resp and the range over the map visits the documents in order; the
\* lock is left to SpecLock.
getTopNSimilarDocumentsIn(order, resp, topN) ==
    IF resp.err THEN {[err |-> ErrGenerator, results |-> <<>>]}
    ELSE IF Len(resp.vecs) = 0 THEN {[err |-> ErrNoQueryEmbedding, results |-> <<>>]}
    ELSE LET flat == Flatten(order)
             tops == getTopNSimilarEmbeddings(resp.vecs[1],
                                              [i \in DOMAIN flat |-> flat[i].embedding],
                                              [i \in DOMAIN flat |-> flat[i].id], topN)
         IN  UNION {IF top.err # NoErr THEN {[err |-> top.err, results |-> <<>>]}
                    ELSE {[err |-> NoErr, results |-> r] : r \in Resolve(top.sims)} :
                      top \in tops}

getTopNSimilarDocuments(resp, topN) ==
    UNION {getTopNSimilarDocumentsIn(order, resp, topN) : order \in Orders(Keys)}

\* In ret, n is the number of results.
GetTopNSimilarDocuments(resp, topN) ==
    /\ \E out \in {[err |-> o.err, n |-> Len(o.results)] : o \in getTopNSimilarDocuments(resp, topN)} :
         ret' = [Return("GetTopNSimilarDocuments", out.err, 1) EXCEPT !.n = out.n]
    /\ UNCHANGED <<ChunkSize, ChunkOverlap, documents, net>>

QueryVecs == GenVecs \cup {<<1>>}
QueryResponses ==
    {Response(TRUE, <<>>), Response(FALSE, <<>>)} \cup {Response(FALSE, <<v>>) : v \in QueryVecs}
TopNs == (-1)..MaxTopN

Length == Cardinality(Keys)

\* ------------------------------------------------- concurrent callers
\* A caller is idle, or inside one operation at one of these places: "Lock"
\* or "RLock" (the operation's first statement, not yet passed), "body" (the
\* lock is held), "embeddingFunc" (the lock is held and the call of the
\* embedding function has not returned).  doc, order and i are the
\* operation's locals that live across a call of the embedding function.
Procs == 1..NumProcs
None == 0
WriteOps == {"AddDocument", "UpdateDocument", "DeleteDocument", "EmbedDocuments"}
LookupOps == {"GetDocument", "GetDocuments", "Length"}
ReadOps == LookupOps \cup {"GetTopNSimilarDocuments"}
Idle == [op |-> "", at |-> "idle", doc |-> Nil, order |-> <<>>, i |-> 0]
At(op, at) == [Idle EXCEPT !.op = op, !.at = at]
Unlocked == [writer |-> None, readers |-> {}]

\* sync.RWMutex.  A reader is let in whenever no writer holds the lock (Go
\* also keeps it out while a writer waits, which only removes behaviours).
Lock(p) ==
    /\ pc[p].at = "Lock"
    /\ documentsLock = Unlocked
    /\ documentsLock' = [documentsLock EXCEPT !.writer = p]
    /\ pc' = [pc EXCEPT ![p].at = "body"]
    /\ UNCHANGED <<ChunkSize, ChunkOverlap, documents, net, ret>>

RLock(p) ==
    /\ pc[p].at = "RLock"
    /\ documentsLock.writer = None
    /\ documentsLock' = [documentsLock EXCEPT !.readers = @ \cup {p}]
    /\ pc' = [pc EXCEPT ![p].at = "body"]
    /\ UNCHANGED <<ChunkSize, ChunkOverlap, documents, net, ret>>

\* The deferred Unlock / RUnlock, run as the operation returns.
Unlock(p) ==
    /\ documentsLock' = [documentsLock EXCEPT !.writer = None]
    /\ pc' = [pc EXCEPT ![p] = Idle]

RUnlock(p) ==
    /\ documentsLock' = [documentsLock EXCEPT !.readers = @ \ {p}]
    /\ pc' = [pc EXCEPT ![p] = Idle]

\* A caller enters an operation.
Call(p, op) ==
    /\ pc[p] = Idle
    /\ pc' = [pc EXCEPT ![p] = At(op, IF op \in WriteOps THEN "Lock" ELSE "RLock")]
    /\ UNCHANGED <<ChunkSize, ChunkOverlap, documents, documentsLock, net, ret>>

\* AddDocument letting go of the lock while the embedding function runs.
AddDocumentBodyUnlocks(p, doc) ==
    /\ pc[p] = At("AddDocument", "body")
    /\ IF AddResponses(doc) = {NoResponse}
       THEN AddDocument(doc, NoResponse) /\ Unlock(p)
       ELSE /\ pc' = [pc EXCEPT ![p].at = "embeddingFunc", ![p].doc = doc]
            /\ documentsLock' = [documentsLock EXCEPT !.writer = None]
            /\ UNCHANGED <<ChunkSize, ChunkOverlap, documents, net, ret>>

\* AddDocument from the lock to the call of the embedding function, or to
\* the return when the document is refused before.
AddDocumentBody(p, doc) ==
    /\ pc[p] = At("AddDocument", "body")
    /\ IF AddResponses(doc) = {NoResponse}
       THEN AddDocument(doc, NoResponse) /\ Unlock(p)
       ELSE /\ pc' = [pc EXCEPT ![p].at = "embeddingFunc", ![p].doc = doc]
            /\ UNCHANGED <<ChunkSize, ChunkOverlap, documents, documentsLock, net, ret>>

\* AddDocument unlocking before a return of nil only.
AddDocumentReturnKeepsLock(p, resp) ==
    /\ pc[p].op = "AddDocument" /\ pc[p].at = "embeddingFunc"
    /\ AddDocument(pc[p].doc, resp)
    /\ IF ret'.err = NoErr THEN Unlock(p)
       ELSE pc' = [pc EXCEPT ![p] = Idle] /\ UNCHANGED documentsLock

\* AddDocument from the answer of the embedding function to the return.
AddDocumentReturn(p, resp) ==
    /\ pc[p].op = "AddDocument" /\ pc[p].at = "embeddingFunc"
    /\ AddDocument(pc[p].doc, resp)
    /\ Unlock(p)

UpdateDocumentBody(p, doc) ==
    /\ pc[p] = At("UpdateDocument", "body")
    /\ UpdateDocument(doc)
    /\ Unlock(p)

DeleteDocumentBody(p, id) ==
    /\ pc[p] = At("DeleteDocument", "body")
    /\ DeleteDocument(id)
    /\ Unlock(p)

\* EmbedDocuments moving on to document k of its loop over the map: it
\* returns when there is none or its content is empty, and calls the
\* embedding function otherwise.
EmbedDocumentsVisit(p, order, k, docs) ==
    IF k > Len(order) \/ docs[order[k]].Content = <<>>
    THEN /\ ret' = [Return("EmbedDocuments",
                           IF k > Len(order) THEN NoErr ELSE ErrContentRequired, k - 1)
                      EXCEPT !.n = k - 1, !.order = order]
         /\ Unlock(p)
    ELSE /\ pc' = [pc EXCEPT ![p].at = "embeddingFunc", ![p].order = order, ![p].i = k]
         /\ UNCHANGED <<documentsLock, ret>>

EmbedDocumentsBody(p, order) ==
    /\ pc[p] = At("EmbedDocuments", "body")
    /\ EmbedDocumentsVisit(p, order, 1, documents)
    /\ UNCHANGED <<ChunkSize, ChunkOverlap, documents, net>>

\* EmbedDocuments from one answer of the embedding function to its next
\* call, or to the return.
EmbedDocumentsAnswer(p, resp) ==
    /\ pc[p].op = "EmbedDocuments" /\ pc[p].at = "embeddingFunc"
    /\ LET order == pc[p].order
           i == pc[p].i
           out == embedDocument(documents[order[i]], resp)
           next == [documents EXCEPT ![order[i]].Segments = out.segs]
       IN  /\ Len(out.segs) <= MaxSegs
           /\ documents' = next
           /\ IF out.err # NoErr
              THEN /\ ret' = [Return("EmbedDocuments", out.err, i)
                                EXCEPT !.n = i - 1, !.order = order]
                   /\ Unlock(p)
              ELSE EmbedDocumentsVisit(p, order, i + 1, next)
    /\ UNCHANGED <<ChunkSize, ChunkOverlap, net>>

\* GetDocument, GetDocuments and Length: one read of the map under the lock.
LookupBody(p) ==
    /\ pc[p].op \in LookupOps /\ pc[p].at = "body"
    /\ RUnlock(p)
    /\ UNCHANGED <<ChunkSize, ChunkOverlap, documents, net, ret>>

\* GetTopNSimilarDocuments calls the embedding function first.
GetTopNSimilarDocumentsBody(p) ==
    /\ pc[p] = At("GetTopNSimilarDocuments", "body")
    /\ pc' = [pc EXCEPT ![p].at = "embeddingFunc"]
    /\ UNCHANGED <<ChunkSize, ChunkOverlap, documents, documentsLock, net, ret>>

GetTopNSimilarDocumentsReturn(p, resp, topN) ==
    /\ pc[p] = At("GetTopNSimilarDocuments", "embeddingFunc")
    /\ GetTopNSimilarDocuments(resp, topN)
    /\ RUnlock(p)

\* heap, multi and returned are used by SpecAlias, SpecMulti and the
\* specifications of single calls; elsewhere they stay as Init leaves them.
NoHeap == [used |-> FALSE]
NoMulti == [running |-> FALSE]
NoCall == [op |-> ""]
NoFan == [running |-> FALSE]

Init ==
    /\ NewCollection
    /\ documentsLock = Unlocked
    /\ pc = [p \in Procs |-> Idle]
    /\ net = 0
    /\ ret = Return("NewCollection", NoErr, 0)
    /\ heap = NoHeap
    /\ multi = NoMulti
    /\ returned = NoCall
    /\ fan = NoFan

\* One caller: every operation runs from its call to its return in one step.
Next ==
    \/ \E doc \in InputDocs \cup {documents[id] : id \in Keys} :
         \E resp \in AddResponses(doc) :
           AddDocument(doc, resp) /\ UNCHANGED <<documentsLock, pc, heap, multi, returned, fan>>
    \/ \E id \in IDs : DeleteDocument(id) /\ UNCHANGED <<documentsLock, pc, heap, multi, returned, fan>>
    \/ \E doc \in InputDocs \cup {documents[id] : id \in Keys} :
         UpdateDocument(doc) /\ UNCHANGED <<documentsLock, pc, heap, multi, returned, fan>>
    \/ \E order \in Orders(Keys) : \E resps \in ResponsesFor(Keys) :
         EmbedDocuments(order, resps) /\ UNCHANGED <<documentsLock, pc, heap, multi, returned, fan>>
    \/ \E resp \in QueryResponses : \E topN \in TopNs :
         GetTopNSimilarDocuments(resp, topN) /\ UNCHANGED <<documentsLock, pc, heap, multi, returned, fan>>

Spec == Init /\ [][Next]_vars

\* One caller and an embedding function that need not keep its contract: it
\* may also answer n texts with one vector less or one more.  The documents
\* passed in carry no segments.
AnyResponses(n) ==
    Responses(n) \cup {Response(FALSE, [i \in 1..k |-> <<3, 4>>]) : k \in {n - 1, n + 1} \ {-1}}

NextAny ==
    \/ \E doc \in {d \in InputDocs : d.Segments = <<>>} :
         \E resp \in IF AddResponses(doc) = {NoResponse} THEN {NoResponse}
                      ELSE AnyResponses(Len(splitText(doc.Content))) :
           AddDocument(doc, resp) /\ UNCHANGED <<documentsLock, pc, heap, multi, returned, fan>>
    \/ \E id \in IDs : DeleteDocument(id) /\ UNCHANGED <<documentsLock, pc, heap, multi, returned, fan>>
    \/ \E doc \in {d \in InputDocs : d.Segments = <<>>} :
         UpdateDocument(doc) /\ UNCHANGED <<documentsLock, pc, heap, multi, returned, fan>>
    \/ \E order \in Orders(Keys) :
         \E resps \in {f \in [Keys -> UNION {AnyResponses(n) : n \in 0..MaxLen}] :
                         \A id \in Keys :
                            f[id] \in AnyResponses(Len(splitText(documents[id].Content)))} :
           EmbedDocuments(order, resps) /\ UNCHANGED <<documentsLock, pc, heap, multi, returned, fan>>
    \/ \E resp \in QueryResponses : \E topN \in TopNs :
         GetTopNSimilarDocuments(resp, topN) /\ UNCHANGED <<documentsLock, pc, heap, multi, returned, fan>>

SpecAny == Init /\ [][NextAny]_vars

\* Concurrent callers: the steps of the operations interleave.
LockIDs == {<<"a">>, <<"b">>}
LockDocs == {Document(id, Text(1), <<>>) : id \in LockIDs}

InitLock == Init /\ ChunkSize = 1

NextLock ==
    \E p \in Procs :
        \/ \E op \in WriteOps \cup ReadOps : Call(p, op) /\ UNCHANGED <<heap, multi, returned, fan>>
        \/ Lock(p) /\ UNCHANGED <<heap, multi, returned, fan>>
        \/ RLock(p) /\ UNCHANGED <<heap, multi, returned, fan>>
        \/ \E doc \in LockDocs : AddDocumentBody(p, doc) /\ UNCHANGED <<heap, multi, returned, fan>>
        \/ \E resp \in Responses(Len(splitText(pc[p].doc.Content))) :
             AddDocumentReturn(p, resp) /\ UNCHANGED <<heap, multi, returned, fan>>
        \/ \E doc \in LockDocs : UpdateDocumentBody(p, doc) /\ UNCHANGED <<heap, multi, returned, fan>>
        \/ \E id \in LockIDs : DeleteDocumentBody(p, id) /\ UNCHANGED <<heap, multi, returned, fan>>
        \/ \E order \in Orders(Keys) : EmbedDocumentsBody(p, order) /\ UNCHANGED <<heap, multi, returned, fan>>
        \/ \E resp \in Responses(1) : EmbedDocumentsAnswer(p, resp) /\ UNCHANGED <<heap, multi, returned, fan>>
        \/ LookupBody(p) /\ UNCHANGED <<heap, multi, returned, fan>>
        \/ GetTopNSimilarDocumentsBody(p) /\ UNCHANGED <<heap, multi, returned, fan>>
        \/ \E resp \in QueryResponses :
             GetTopNSimilarDocumentsReturn(p, resp, MaxTopN) /\ UNCHANGED <<heap, multi, returned, fan>>

SpecLock == InitLock /\ [][NextLock]_vars

\* ------------------------------------------------------------ pointers
\* The collection keeps *Document and a Document keeps []*Segment.  In
\* SpecAlias the objects live in heap: objs and segs are the Document and
\* Segment objects by address, index is the map c.documents, ptr is a
\* *Document the caller holds (from a literal of its own or from GetDocument,
\* as from tells), copy is a Document value the caller took out of the map
\* GetDocuments returned.  documents is then what
\* index leads to, object by object (View).  An address nobody can reach any
\* more is free again.  ret names the caller's own statements too.
DocRefs == 1..NumDocObjs
SegRefs == 1..NumSegObjs
Null == 0
FreeDoc == [ID |-> <<>>, Content |-> <<>>, Segments |-> <<>>, free |-> TRUE]
FreeSeg == [Text |-> <<>>, Embedding |-> <<>>, free |-> TRUE]
NoCopy == [held |-> FALSE, ID |-> <<>>, Content |-> <<>>, Segments |-> <<>>]
EmptyHeap ==
    [used |-> TRUE,
     objs |-> [r \in DocRefs |-> FreeDoc],
     segs |-> [r \in SegRefs |-> FreeSeg],
     index |-> [id \in IDs |-> Null],
     ptr |-> Null, from |-> "", copy |-> NoCopy]

\* The Segment values behind a slice of addresses, the Document value behind
\* an address, and the value of the caller's copy.
SegmentsAt(h, refs) ==
    [i \in DOMAIN refs |-> Segment(h.segs[refs[i]].Text, h.segs[refs[i]].Embedding)]
Deref(h, r) == Document(h.objs[r].ID, h.objs[r].Content, SegmentsAt(h, h.objs[r].Segments))
CopyValue(h) == Document(h.copy.ID, h.copy.Content, SegmentsAt(h, h.copy.Segments))
View(h) == [id \in IDs |-> IF h.index[id] = Null THEN Nil ELSE Deref(h, h.index[id])]

Range(f) == {f[i] : i \in DOMAIN f}

\* The garbage collector.
Collect(h) ==
    LET docs == ({h.index[id] : id \in IDs} \cup {h.ptr}) \ {Null}
        segs == UNION {Range(h.objs[r].Segments) : r \in docs} \cup Range(h.copy.Segments)
    IN  [h EXCEPT !.objs = [r \in DocRefs |-> IF r \in docs THEN h.objs[r] ELSE FreeDoc],
                  !.segs = [r \in SegRefs |-> IF r \in segs THEN h.segs[r] ELSE FreeSeg]]

\* Allocation: the k lowest free addresses, in order.
RECURSIVE Lowest(_, _)
Lowest(S, k) ==
    IF k = 0 THEN <<>>
    ELSE LET m == CHOOSE x \in S : \A y \in S : x <= y
         IN  <<m>> \o Lowest(S \ {m}, k - 1)

FreeDocs(h) == {r \in DocRefs : h.objs[r].free}
FreeSegs(h) == {r \in SegRefs : h.segs[r].free}

\* doc.Segments = append(doc.Segments, &Segment{...}) for each of segments,
\* doc being the object at r.
AppendSegments(h, r, segments) ==
    LET refs == Lowest(FreeSegs(h), Len(segments))
    IN  [h EXCEPT !.segs = [x \in SegRefs |->
                              IF \E j \in DOMAIN refs : refs[j] = x
                              THEN LET j == CHOOSE j \in DOMAIN refs : refs[j] = x
                                   IN  [Text |-> segments[j].Text,
                                        Embedding |-> segments[j].Embedding, free |-> FALSE]
                              ELSE h.segs[x]],
                  !.objs[r].Segments = @ \o refs]

\* The caller makes a Document of its own: doc := &Document{ID: id, Content: content}.
NewDocument(id, content) ==
    /\ FreeDocs(Collect([heap EXCEPT !.ptr = Null])) # {}
    /\ LET h == Collect([heap EXCEPT !.ptr = Null])
           r == CHOOSE x \in FreeDocs(h) : \A y \in FreeDocs(h) : x <= y
       IN  heap' = [h EXCEPT !.objs[r] = [ID |-> id, Content |-> content,
                                          Segments |-> <<>>, free |-> FALSE],
                             !.ptr = r, !.from = "caller"]
    /\ ret' = Return("NewDocument", NoErr, 0)
    /\ UNCHANGED <<ChunkSize, ChunkOverlap, documents, documentsLock, pc, net, multi, returned, fan>>

\* c.AddDocument(ptr): the segments are appended to the caller's object and
\* the caller's pointer itself goes into the map.
AddDocumentPtr(resp) ==
    /\ heap.ptr # Null
    /\ LET doc == Deref(heap, heap.ptr)
           out == addDocument(doc, resp)
           added == SubSeq(out.segs, Len(doc.Segments) + 1, Len(out.segs))
           h == AppendSegments(heap, heap.ptr, added)
       IN  /\ Len(added) <= Cardinality(FreeSegs(heap))
           /\ heap' = Collect([h EXCEPT !.index[doc.ID] = IF out.err = NoErr THEN heap.ptr ELSE @])
           /\ net' = IF out.err = NoErr THEN net + 1 ELSE net
           /\ ret' = Return("AddDocument", out.err, IF resp = NoResponse THEN 0 ELSE 1)
    /\ documents' = View(heap')
    /\ UNCHANGED <<ChunkSize, ChunkOverlap, documentsLock, pc, multi, returned, fan>>

\* c.UpdateDocument(ptr) writing the new content into the stored object and
\* leaving that object, with its segments, in the map.
UpdateDocumentPtrKeepsObject ==
    /\ heap.ptr # Null
    /\ LET doc == Deref(heap, heap.ptr)
           err == updateDocument(doc)
       IN  /\ heap' = IF err = NoErr
                       THEN Collect([heap EXCEPT !.objs[heap.index[doc.ID]].Content = doc.Content])
                       ELSE Collect(heap)
           /\ ret' = Return("UpdateDocument", err, 0)
    /\ documents' = View(heap')
    /\ UNCHANGED <<ChunkSize, ChunkOverlap, documentsLock, pc, net, multi, returned, fan>>

\* c.UpdateDocument(ptr)
UpdateDocumentPtr ==
    /\ heap.ptr # Null
    /\ LET doc == Deref(heap, heap.ptr)
           err == updateDocument(doc)
       IN  /\ heap' = Collect([heap EXCEPT !.index[doc.ID] = IF err = NoErr THEN heap.ptr ELSE @])
           /\ ret' = Return("UpdateDocument", err, 0)
    /\ documents' = View(heap')
    /\ UNCHANGED <<ChunkSize, ChunkOverlap, documentsLock, pc, net, multi, returned, fan>>

DeleteDocumentPtr(id) ==
    /\ LET err == deleteDocument(id)
       IN  /\ heap' = Collect([heap EXCEPT !.index[id] = Null])
           /\ net' = IF err = NoErr THEN net - 1 ELSE net
           /\ ret' = Return("DeleteDocument", err, 0)
    /\ documents' = View(heap')
    /\ UNCHANGED <<ChunkSize, ChunkOverlap, documentsLock, pc, multi, returned, fan>>

\* The appends of EmbedDocuments, object by object: docs is the map by value
\* it leaves.
RECURSIVE EmbedHeap(_, _, _, _)
EmbedHeap(h, order, i, docs) ==
    IF i > Len(order) THEN h
    ELSE LET r == h.index[order[i]]
             new == docs[order[i]].Segments
         IN  EmbedHeap(AppendSegments(h, r, SubSeq(new, Len(h.objs[r].Segments) + 1, Len(new))),
                       order, i + 1, docs)

EmbedDocumentsPtr(order, resps) ==
    /\ LET o == embedDocuments(order, resps, 1, documents)
       IN  /\ Cardinality({<<id, j>> \in Keys \X (1..(NumSegObjs + 1)) :
                             /\ j > Len(documents[id].Segments)
                             /\ j <= Len(o.docs[id].Segments)}) <= Cardinality(FreeSegs(heap))
           /\ heap' = Collect(EmbedHeap(heap, order, 1, o.docs))
           /\ ret' = [Return("EmbedDocuments", o.err, o.gen) EXCEPT !.n = o.done, !.order = order]
    /\ documents' = View(heap')
    /\ UNCHANGED <<ChunkSize, ChunkOverlap, documentsLock, pc, net, multi, returned, fan>>

\* ptr, ok := c.GetDocument(id): the pointer in the map.
GetDocumentPtr(id) ==
    /\ heap' = Collect([heap EXCEPT !.ptr = heap.index[id],
                                    !.from = IF heap.index[id] = Null THEN "" ELSE "GetDocument"])
    /\ ret' = Return("GetDocument", NoErr, 0)
    /\ UNCHANGED <<ChunkSize, ChunkOverlap, documents, documentsLock, pc, net, multi, returned, fan>>

\* copy := c.GetDocuments()[id]: docs[id] = *doc copies the fields of the
\* object, the slice of segment addresses among them.  (That the slice also
\* shares its array with the object is left out: writes of whole elements of
\* copy.Segments are not among the caller's steps here.)
GetDocumentsCopy(id) ==
    /\ heap.index[id] # Null
    /\ heap' = Collect([heap EXCEPT !.copy = [held |-> TRUE,
                                              ID |-> heap.objs[heap.index[id]].ID,
                                              Content |-> heap.objs[heap.index[id]].Content,
                                              Segments |-> heap.objs[heap.index[id]].Segments]])
    /\ ret' = Return("GetDocuments", NoErr, 0)
    /\ UNCHANGED <<ChunkSize, ChunkOverlap, documents, documentsLock, pc, net, multi, returned, fan>>

\* The caller's own statements.  ptr.Content = content
WritePtrContent(content) ==
    /\ heap.ptr # Null
    /\ heap.objs[heap.ptr].Content # content
    /\ heap' = [heap EXCEPT !.objs[heap.ptr].Content = content]
    /\ documents' = View(heap')
    /\ ret' = Return("ptr.Content =", NoErr, 0)
    /\ UNCHANGED <<ChunkSize, ChunkOverlap, documentsLock, pc, net, multi, returned, fan>>

\* ptr.Segments = nil
WritePtrSegments ==
    /\ heap.ptr # Null
    /\ heap.objs[heap.ptr].Segments # <<>>
    /\ heap' = Collect([heap EXCEPT !.objs[heap.ptr].Segments = <<>>])
    /\ documents' = View(heap')
    /\ ret' = Return("ptr.Segments =", NoErr, 0)
    /\ UNCHANGED <<ChunkSize, ChunkOverlap, documentsLock, pc, net, multi, returned, fan>>

\* copy.Content = content
WriteCopyContent(content) ==
    /\ heap.copy.held
    /\ heap.copy.Content # content
    /\ heap' = [heap EXCEPT !.copy.Content = content]
    /\ documents' = View(heap')
    /\ ret' = Return("copy.Content =", NoErr, 0)
    /\ UNCHANGED <<ChunkSize, ChunkOverlap, documentsLock, pc, net, multi, returned, fan>>

\* copy.Segments[0].Text = ""
WriteCopySegment ==
    /\ heap.copy.held
    /\ heap.copy.Segments # <<>>
    /\ heap.segs[heap.copy.Segments[1]].Text # <<>>
    /\ heap' = [heap EXCEPT !.segs[heap.copy.Segments[1]].Text = <<>>]
    /\ documents' = View(heap')
    /\ ret' = Return("copy.Segments[0].Text =", NoErr, 0)
    /\ UNCHANGED <<ChunkSize, ChunkOverlap, documentsLock, pc, net, multi, returned, fan>>

AliasIDs == {<<"a">>}
AliasContents == {<<1>>, <<2>>}

InitAlias ==
    /\ ChunkSize = 1
    /\ ChunkOverlap = 0
    /\ documents = [id \in IDs |-> Nil]
    /\ documentsLock = Unlocked
    /\ pc = [p \in Procs |-> Idle]
    /\ net = 0
    /\ ret = Return("NewCollection", NoErr, 0)
    /\ heap = EmptyHeap
    /\ multi = NoMulti
    /\ returned = NoCall
    /\ fan = NoFan

NextAlias ==
    \/ \E id \in AliasIDs : \E content \in AliasContents : NewDocument(id, content)
    \/ \E resp \in IF heap.ptr = Null THEN {} ELSE AddResponses(Deref(heap, heap.ptr)) :
         AddDocumentPtr(resp)
    \/ UpdateDocumentPtr
    \/ \E id \in AliasIDs : DeleteDocumentPtr(id)
    \/ \E order \in Orders(Keys) : \E resps \in ResponsesFor(Keys) : EmbedDocumentsPtr(order, resps)
    \/ \E id \in AliasIDs : GetDocumentPtr(id)
    \/ \E id \in AliasIDs : GetDocumentsCopy(id)
    \/ \E content \in AliasContents : WritePtrContent(content)
    \/ WritePtrSegments
    \/ \E content \in AliasContents : WriteCopyContent(content)
    \/ WriteCopySegment

SpecAlias == InitAlias /\ [][NextAlias]_vars

\* documents is what the map leads to.
AliasView == documents = View(heap)

\* ---------------------------------------------------------- the search
\* SpecSearch: GetTopNSimilarDocuments on the stores of StoreIDs whose
\* documents have MaxStoreSegs segments at most, with embeddings of unit
\* length in two dimensions and in one (UpdateDocument stores the segments
\* it is given, so stores of mixed dimensionality arise).  returned keeps the
\* call: the answer of the embedding function, topN, the order of the range
\* over the map, and what the call returned.
StoreIDs == {<<"a">>, <<"b">>}
StoreEmbeddings == {<<10, 0>>, <<6, 8>>, <<10>>}
StoreDocs(id) ==
    {Nil} \cup UNION {{Document(id, Text(1), [i \in 1..n |-> Segment(<<i>>, e[i])]) :
                         e \in [1..n -> StoreEmbeddings]} : n \in 0..MaxStoreSegs}
Stores ==
    {[id \in IDs |-> IF id = <<"a">> THEN a ELSE IF id = <<"b">> THEN b ELSE Nil] :
       a \in StoreDocs(<<"a">>), b \in StoreDocs(<<"b">>)}
SearchTopNs == (-1)..MaxSearchTopN

Search(order, resp, topN) ==
    /\ \E o \in getTopNSimilarDocumentsIn(order, resp, topN) :
         /\ returned' = [op |-> "GetTopNSimilarDocuments", resp |-> resp, topN |-> topN,
                         order |-> order, err |-> o.err, results |-> o.results]
         /\ ret' = [Return("GetTopNSimilarDocuments", o.err, 1) EXCEPT !.n = Len(o.results)]
    /\ UNCHANGED <<ChunkSize, ChunkOverlap, documents, documentsLock, pc, net, heap, multi, fan>>

InitSearch ==
    /\ ChunkSize = 1
    /\ ChunkOverlap = 0
    /\ documents \in Stores
    /\ documentsLock = Unlocked
    /\ pc = [p \in Procs |-> Idle]
    /\ net = Cardinality(Keys)
    /\ ret = Return("NewCollection", NoErr, 0)
    /\ heap = NoHeap
    /\ multi = NoMulti
    /\ returned = NoCall
    /\ fan = NoFan

NextSearch ==
    \E order \in Orders(Keys) : \E resp \in QueryResponses : \E topN \in SearchTopNs :
        Search(order, resp, topN)

SpecSearch == InitSearch /\ [][NextSearch]_vars

\* ------------------------------------------------ search for many queries
\* SpecMulti: GetTopNSimilarDocumentsForQueries.  multi holds the call: the
\* answers resps the embedding function will give query by query, topN, and
\* the locals errNum, queryResults and mu; goroutine i is at "search" (inside
\* GetTopNSimilarDocuments), at "mu.Lock", at "mu.Unlock" (it holds mu and
\* has read errNum into tmp[i], or is about to write queryResults[i]) or
\* "done", and out[i] is what its search returned.  The store stays as it is.
ErrAllQueries == "failed to get top N similar documents for all queries"
NoResult ==
    [Document |-> Nil, Segment |-> Segment(<<>>, <<>>), SegmentIndex |-> 0, Similarity |-> 0]
MultiStores ==
    {s \in Stores :
       /\ s[<<"a">>] # Nil
       /\ Len(s[<<"b">>].Segments) = IF s[<<"b">>] = Nil THEN 0 ELSE 1
       /\ \A id \in StoreIDs : \A i \in DOMAIN s[id].Segments :
             Len(s[id].Segments[i].Embedding) = 2}
MultiResponses ==
    {Response(TRUE, <<>>), Response(FALSE, <<(<<3, 4>>)>>), Response(FALSE, <<(<<4, 3>>)>>)}
Queries == UNION {[1..n -> MultiResponses] : n \in 0..MaxQueries}
MultiTopNs == 0..MaxSearchTopN

RECURSIVE Concat(_)
Concat(seqs) == IF seqs = <<>> THEN <<>> ELSE Head(seqs) \o Concat(Tail(seqs))

\* uniqueResults keeping the result it saw first for a document.
RECURSIVE uniqueResultsKeepsFirst(_, _)
uniqueResultsKeepsFirst(results, unique) ==
    IF results = <<>> THEN unique
    ELSE LET res == Head(results)
             docID == res.Document.ID
         IN  uniqueResultsKeepsFirst(Tail(results),
                                     IF unique[docID] = NoResult
                                     THEN [unique EXCEPT ![docID] = res] ELSE unique)

\* The map uniqueResults after the loops over queryResults and their results.
RECURSIVE uniqueResults(_, _)
uniqueResults(results, unique) ==
    IF results = <<>> THEN unique
    ELSE LET res == Head(results)
             docID == res.Document.ID
         IN  uniqueResults(Tail(results),
                           IF unique[docID] = NoResult
                           THEN [unique EXCEPT ![docID] = res]
                           ELSE IF res.Similarity > unique[docID].Similarity
                                THEN [unique EXCEPT ![docID] = res] ELSE unique)

\* The result lists the merge can return: the values of uniqueResults sorted
\* by descending score, cut to topN.
mergeResults(queryResults, topN) ==
    LET unique == uniqueResults(Concat(queryResults), [id \in IDs |-> NoResult])
        keys == {id \in IDs : unique[id] # NoResult}
    IN  {LET results == [j \in 1..Len(p) |-> unique[p[j]]]
         IN  IF Len(results) > topN THEN SubSeq(results, 1, topN) ELSE results :
           p \in SortedPrefixes([id \in IDs |-> unique[id].Similarity], keys, Cardinality(keys))}

GetTopNSimilarDocumentsForQueries(resps, topN) ==
    /\ ~multi.running
    /\ multi' = [running |-> TRUE, resps |-> resps, topN |-> topN,
                 at |-> [i \in DOMAIN resps |-> "search"],
                 out |-> [i \in DOMAIN resps |-> [err |-> NoErr, results |-> <<>>]],
                 tmp |-> [i \in DOMAIN resps |-> 0],
                 mu |-> None, errNum |-> 0,
                 queryResults |-> [i \in DOMAIN resps |-> <<>>]]
    /\ returned' = NoCall
    /\ UNCHANGED <<ChunkSize, ChunkOverlap, documents, documentsLock, pc, net, ret, heap, fan>>

\* results, queryErr := c.GetTopNSimilarDocuments(query, topN)
QuerySearch(i, order) ==
    /\ multi.running /\ i \in DOMAIN multi.at /\ multi.at[i] = "search"
    /\ \E o \in getTopNSimilarDocumentsIn(order, multi.resps[i], multi.topN) :
         multi' = [multi EXCEPT !.out[i] = o, !.at[i] = "mu.Lock"]
    /\ UNCHANGED <<ChunkSize, ChunkOverlap, documents, documentsLock, pc, net, ret, heap, returned, fan>>

\* mu.Lock() without waiting for mu.
QueryLockNoWait(i) ==
    /\ multi.running /\ i \in DOMAIN multi.at /\ multi.at[i] = "mu.Lock"
    /\ multi' = [multi EXCEPT !.mu = i, !.tmp[i] = multi.errNum, !.at[i] = "mu.Unlock"]
    /\ UNCHANGED <<ChunkSize, ChunkOverlap, documents, documentsLock, pc, net, ret, heap, returned, fan>>

\* mu.Lock(), and the read of errNum that errNum++ begins with.
QueryLock(i) ==
    /\ multi.running /\ i \in DOMAIN multi.at /\ multi.at[i] = "mu.Lock"
    /\ multi.mu = None
    /\ multi' = [multi EXCEPT !.mu = i, !.tmp[i] = multi.errNum, !.at[i] = "mu.Unlock"]
    /\ UNCHANGED <<ChunkSize, ChunkOverlap, documents, documentsLock, pc, net, ret, heap, returned, fan>>

\* The write errNum++ ends with, or queryResults[i] = ..., and mu.Unlock().
QueryUnlock(i) ==
    /\ multi.running /\ i \in DOMAIN multi.at /\ multi.at[i] = "mu.Unlock"
    /\ multi' = [multi EXCEPT !.mu = None, !.at[i] = "done",
                              !.errNum = IF multi.out[i].err # NoErr THEN multi.tmp[i] + 1 ELSE @,
                              !.queryResults[i] = IF multi.out[i].err # NoErr THEN @
                                                  ELSE multi.out[i].results]
    /\ UNCHANGED <<ChunkSize, ChunkOverlap, documents, documentsLock, pc, net, ret, heap, returned, fan>>

\* A return that fails only when some query failed, and every one.
ForQueriesReturnUnlessEmpty ==
    /\ multi.running /\ \A i \in DOMAIN multi.at : multi.at[i] = "done"
    /\ \E o \in IF multi.errNum = Len(multi.resps) /\ multi.errNum > 0
                THEN {[err |-> ErrAllQueries, results |-> <<>>]}
                ELSE {[err |-> NoErr, results |-> r] : r \in mergeResults(multi.queryResults, multi.topN)} :
         /\ returned' = [op |-> "GetTopNSimilarDocumentsForQueries", resps |-> multi.resps,
                         topN |-> multi.topN, out |-> multi.out, errNum |-> multi.errNum,
                         err |-> o.err, results |-> o.results]
         /\ ret' = [Return("GetTopNSimilarDocumentsForQueries", o.err, Len(multi.resps))
                      EXCEPT !.n = Len(o.results)]
    /\ multi' = NoMulti
    /\ UNCHANGED <<ChunkSize, ChunkOverlap, documents, documentsLock, pc, net, heap, fan>>

\* After wg.Wait(): the error for all queries, or the merge.
ForQueriesReturn ==
    /\ multi.running /\ \A i \in DOMAIN multi.at : multi.at[i] = "done"
    /\ \E o \in IF multi.errNum = Len(multi.resps)
                THEN {[err |-> ErrAllQueries, results |-> <<>>]}
                ELSE {[err |-> NoErr, results |-> r] : r \in mergeResults(multi.queryResults, multi.topN)} :
         /\ returned' = [op |-> "GetTopNSimilarDocumentsForQueries", resps |-> multi.resps,
                         topN |-> multi.topN, out |-> multi.out, errNum |-> multi.errNum,
                         err |-> o.err, results |-> o.results]
         /\ ret' = [Return("GetTopNSimilarDocumentsForQueries", o.err, Len(multi.resps))
                      EXCEPT !.n = Len(o.results)]
    /\ multi' = NoMulti
    /\ UNCHANGED <<ChunkSize, ChunkOverlap, documents, documentsLock, pc, net, heap, fan>>

InitMulti ==
    /\ ChunkSize = 1
    /\ ChunkOverlap = 0
    /\ documents \in MultiStores
    /\ documentsLock = Unlocked
    /\ pc = [p \in Procs |-> Idle]
    /\ net = Cardinality(Keys)
    /\ ret = Return("NewCollection", NoErr, 0)
    /\ heap = NoHeap
    /\ multi = NoMulti
    /\ returned = NoCall
    /\ fan = NoFan

NextMulti ==
    \/ \E resps \in Queries : \E topN \in MultiTopNs : GetTopNSimilarDocumentsForQueries(resps, topN)
    \/ \E i \in 1..MaxQueries : \E order \in Orders(Keys) : QuerySearch(i, order)
    \/ \E i \in 1..MaxQueries : QueryLock(i)
    \/ \E i \in 1..MaxQueries : QueryUnlock(i)
    \/ ForQueriesReturn

SpecMulti == InitMulti /\ [][NextMulti]_vars

\* ------------------------------------- search for many queries and writers
\* SpecBetween: GetTopNSimilarDocumentsForQueries beside a caller of
\* DeleteDocument, on a store of two documents of one segment each.  The call itself never touches documentsLock; goroutine i
\* calls GetTopNSimilarDocuments, which takes the read lock as its first
\* statement and gives it back as it returns.  In documentsLock.readers
\* goroutine i is Reader(i).  out[i].seen keeps the keys of the store the
\* search of query i read.
Reader(i) == NumProcs + i
Writer == CHOOSE p \in Procs : TRUE
BetweenStore ==
    [id \in IDs |-> IF id = <<"a">> THEN Document(id, Text(1), <<Segment(<<1>>, <<10, 0>>)>>)
                    ELSE IF id = <<"b">> THEN Document(id, Text(1), <<Segment(<<1>>, <<6, 8>>)>>)
                    ELSE Nil]

\* c.documentsLock.RLock() of the search of query i.
QueryRLock(i) ==
    /\ multi.running /\ i \in DOMAIN multi.at /\ multi.at[i] = "search"
    /\ documentsLock.writer = None
    /\ documentsLock' = [documentsLock EXCEPT !.readers = @ \cup {Reader(i)}]
    /\ multi' = [multi EXCEPT !.at[i] = "searching"]
    /\ UNCHANGED <<ChunkSize, ChunkOverlap, documents, pc, net, ret, heap, returned, fan>>

\* A search that returns without the deferred RUnlock.
QuerySearchKeepsLock(i, order) ==
    /\ multi.running /\ i \in DOMAIN multi.at /\ multi.at[i] = "searching"
    /\ \E o \in getTopNSimilarDocumentsIn(order, multi.resps[i], multi.topN) :
         multi' = [multi EXCEPT !.out[i] = [err |-> o.err, results |-> o.results, seen |-> Keys],
                                !.at[i] = "mu.Lock"]
    /\ UNCHANGED <<ChunkSize, ChunkOverlap, documents, documentsLock, pc, net, ret, heap,
                   returned, fan>>

\* GetTopNSimilarDocuments of query i from the lock to its return, with the
\* deferred RUnlock.
QuerySearchLocked(i, order) ==
    /\ multi.running /\ i \in DOMAIN multi.at /\ multi.at[i] = "searching"
    /\ \E o \in getTopNSimilarDocumentsIn(order, multi.resps[i], multi.topN) :
         multi' = [multi EXCEPT !.out[i] = [err |-> o.err, results |-> o.results, seen |-> Keys],
                                !.at[i] = "mu.Lock"]
    /\ documentsLock' = [documentsLock EXCEPT !.readers = @ \ {Reader(i)}]
    /\ UNCHANGED <<ChunkSize, ChunkOverlap, documents, pc, net, ret, heap, returned, fan>>

InitBetween ==
    /\ ChunkSize = 1
    /\ ChunkOverlap = 0
    /\ documents = BetweenStore
    /\ documentsLock = Unlocked
    /\ pc = [p \in Procs |-> Idle]
    /\ net = Cardinality(Keys)
    /\ ret = Return("NewCollection", NoErr, 0)
    /\ heap = NoHeap
    /\ multi = NoMulti
    /\ returned = NoCall
    /\ fan = NoFan

NextBetween ==
    \/ \E resps \in Queries : \E topN \in MultiTopNs : GetTopNSimilarDocumentsForQueries(resps, topN)
    \/ \E i \in 1..MaxQueries : QueryRLock(i)
    \/ \E i \in 1..MaxQueries : \E order \in Orders(Keys) : QuerySearchLocked(i, order)
    \/ \E i \in 1..MaxQueries : QueryLock(i)
    \/ \E i \in 1..MaxQueries : QueryUnlock(i)
    \/ ForQueriesReturn
    \/ Call(Writer, "DeleteDocument") /\ UNCHANGED <<heap, multi, returned, fan>>
    \/ Lock(Writer) /\ UNCHANGED <<heap, multi, returned, fan>>
    \/ \E id \in StoreIDs : DeleteDocumentBody(Writer, id) /\ UNCHANGED <<heap, multi, returned, fan>>

SpecBetween == InitBetween /\ [][NextBetween]_vars

\* ------------------------------------------------------------ splitText
\* SpecSplit: splitText on the texts of SplitMaxLen runes at most, all runes
\* different, for every valid chunk size up to SplitMaxChunk and overlap.
\* returned keeps the text and the chunks.
SplitTexts == {Text(n) : n \in 0..SplitMaxLen}

SplitText(text) ==
    /\ returned' = [op |-> "splitText", text |-> text, chunks |-> splitText(text)]
    /\ UNCHANGED <<ChunkSize, ChunkOverlap, documents, documentsLock, pc, net, ret, heap, multi, fan>>

InitSplit ==
    /\ ChunkSize \in 1..SplitMaxChunk
    /\ ChunkOverlap \in 0..(ChunkSize - 1)
    /\ documents = [id \in IDs |-> Nil]
    /\ documentsLock = Unlocked
    /\ pc = [p \in Procs |-> Idle]
    /\ net = 0
    /\ ret = Return("NewCollection", NoErr, 0)
    /\ heap = NoHeap
    /\ multi = NoMulti
    /\ returned = NoCall
    /\ fan = NoFan

NextSplit == \E text \in SplitTexts : SplitText(text)

SpecSplit == InitSplit /\ [][NextSplit]_vars

\* ------------------------------------------------ the ranker's goroutines
\* SpecRank: getTopNSimilarEmbeddings with one goroutine per candidate.  fan
\* holds the call while its goroutines run: goroutine i is at "go" (started,
\* before its dot product) or "done" (wg.Done has run).  returned keeps the
\* arguments of the call, the number of goroutines it started and what it
\* returned.  The candidates are named as the search names them.
RankEmbeddings == {<<6, 8>>, <<10, 0>>, <<-6, -8>>, <<10>>}
RankQueries == {<<0, 0>>, <<3, 4>>, <<1>>}
Candidates == UNION {[1..n -> RankEmbeddings] : n \in 0..MaxCandidates}
RankIDs(n) == [i \in 1..n |-> SegmentID(<<"a">>, i - 1)]

\* The checks without the comparison of the lengths.
rankChecksNoLength(queryEmbedding, embeddings) ==
    IF Len(embeddings) = 0 THEN ErrNoEmbeddings
    ELSE normalizeVector(queryEmbedding).err

\* The error the checks before the loop end in, NoErr if in none.
rankChecks(queryEmbedding, embeddings) ==
    IF Len(embeddings) = 0 THEN ErrNoEmbeddings
    ELSE IF Len(queryEmbedding) # Len(embeddings[1]) THEN ErrLength
    ELSE normalizeVector(queryEmbedding).err

RankCall(queryEmbedding, embeddings, topN) ==
    /\ ~fan.running
    /\ LET err == rankChecks(queryEmbedding, embeddings)
           call == [op |-> "getTopNSimilarEmbeddings", query |-> queryEmbedding,
                    embeddings |-> embeddings, ids |-> RankIDs(Len(embeddings)), topN |-> topN]
       IN  IF err # NoErr
           THEN /\ returned' = call @@ [started |-> 0, err |-> err, sims |-> <<>>]
                /\ fan' = fan
           ELSE /\ returned' = NoCall
                /\ fan' = [running |-> TRUE, call |-> call,
                           norm |-> normalizeVector(queryEmbedding).vec,
                           at |-> [i \in DOMAIN embeddings |-> "go"],
                           similarities |-> [i \in DOMAIN embeddings |-> Similarity(<<>>, 0)]]
    /\ UNCHANGED <<ChunkSize, ChunkOverlap, documents, documentsLock, pc, net, ret, heap, multi>>

\* Goroutine i: the dot product, and similarities[i] unless it failed.
RankTask(i) ==
    /\ fan.running /\ i \in DOMAIN fan.at /\ fan.at[i] = "go"
    /\ LET d == dotProduct(fan.norm, fan.call.embeddings[i])
       IN  fan' = [fan EXCEPT !.at[i] = "done",
                              !.similarities[i] = IF d.err THEN @
                                                  ELSE Similarity(fan.call.ids[i], d.val)]
    /\ UNCHANGED <<ChunkSize, ChunkOverlap, documents, documentsLock, pc, net, ret, heap, multi,
                   returned>>

\* After wg.Wait(): the sort and similarities[:topN].
RankReturn ==
    /\ fan.running /\ \A i \in DOMAIN fan.at : fan.at[i] = "done"
    /\ LET similarities == fan.similarities
           topN == IF fan.call.topN > Len(similarities) THEN Len(similarities) ELSE fan.call.topN
       IN  \E o \in IF topN < 0 THEN {[err |-> PanicSlice, sims |-> <<>>]}
                    ELSE {[err |-> NoErr, sims |-> [j \in 1..Len(p) |-> similarities[p[j]]]] :
                            p \in SortedPrefixes([i \in DOMAIN similarities |-> similarities[i].Score],
                                                 DOMAIN similarities, topN)} :
             returned' = fan.call @@ [started |-> Len(fan.at), err |-> o.err, sims |-> o.sims]
    /\ fan' = NoFan
    /\ UNCHANGED <<ChunkSize, ChunkOverlap, documents, documentsLock, pc, net, ret, heap, multi>>

InitRank ==
    /\ ChunkSize = 1
    /\ ChunkOverlap = 0
    /\ documents = [id \in IDs |-> Nil]
    /\ documentsLock = Unlocked
    /\ pc = [p \in Procs |-> Idle]
    /\ net = 0
    /\ ret = Return("NewCollection", NoErr, 0)
    /\ heap = NoHeap
    /\ multi = NoMulti
    /\ returned = NoCall
    /\ fan = NoFan

NextRank ==
    \/ \E queryEmbedding \in RankQueries : \E embeddings \in Candidates : \E topN \in SearchTopNs :
         RankCall(queryEmbedding, embeddings, topN)
    \/ \E i \in 1..MaxCandidates : RankTask(i)
    \/ RankReturn

SpecRank == InitRank /\ [][NextRank]_vars

\* -------------------------------------------------------- construction
\* SpecNew: the calls of NewCollection.  A string argument is empty or not,
\* embeddingFunc is nil or not; returned keeps the arguments, the error and
\* whether the *Collection returned is nil.  ChunkSize, ChunkOverlap and
\* documents are the fields of the collection the last successful call made.
NewArgs ==
    [name : {<<>>, <<"n">>}, embeddingDocumentType : {<<>>, <<"d">>},
     embeddingQueryType : {<<>>, <<"q">>}, chunkSize : (-1)..MaxChunk,
     chunkOverlap : (-1)..MaxChunk, funcIsNil : BOOLEAN]

\* NewCollection without the comparison of the overlap with the chunk size.
newCollectionAnyOverlap(a) ==
    IF a.funcIsNil THEN "embedding function is required"
    ELSE IF a.chunkSize <= 0 THEN "chunk size must be greater than zero"
    ELSE IF a.chunkOverlap < 0 THEN "chunk overlap must be greater than or equal to zero"
    ELSE IF a.name = <<>> THEN "collection name is required"
    ELSE IF a.embeddingDocumentType = <<>> THEN "embedding document type is required"
    ELSE IF a.embeddingQueryType = <<>> THEN "embedding query type is required"
    ELSE NoErr

\* The error NewCollection returns for the arguments a, NoErr if none.
newCollection(a) ==
    IF a.funcIsNil THEN "embedding function is required"
    ELSE IF a.chunkSize <= 0 THEN "chunk size must be greater than zero"
    ELSE IF a.chunkOverlap < 0 THEN "chunk overlap must be greater than or equal to zero"
    ELSE IF a.chunkOverlap >= a.chunkSize THEN "chunk overlap must be less than chunk size"
    ELSE IF a.name = <<>> THEN "collection name is required"
    ELSE IF a.embeddingDocumentType = <<>> THEN "embedding document type is required"
    ELSE IF a.embeddingQueryType = <<>> THEN "embedding query type is required"
    ELSE NoErr

NewCollectionCall(a) ==
    /\ LET err == newCollection(a)
       IN  /\ returned' = [op |-> "NewCollection", args |-> a, err |-> err, nil |-> err # NoErr]
           /\ ret' = Return("NewCollection", err, 0)
           /\ IF err = NoErr
              THEN /\ ChunkSize' = a.chunkSize
                   /\ ChunkOverlap' = a.chunkOverlap
                   /\ documents' = [id \in IDs |-> Nil]
              ELSE UNCHANGED <<ChunkSize, ChunkOverlap, documents>>
    /\ UNCHANGED <<documentsLock, pc, net, heap, multi, fan>>

InitNew ==
    /\ ChunkSize = 1
    /\ ChunkOverlap = 0
    /\ documents = [id \in IDs |-> Nil]
    /\ documentsLock = Unlocked
    /\ pc = [p \in Procs |-> Idle]
    /\ net = 0
    /\ ret = Return("", NoErr, 0)
    /\ heap = NoHeap
    /\ multi = NoMulti
    /\ returned = NoCall
    /\ fan = NoFan

NextNew == \E a \in NewArgs : NewCollectionCall(a)

SpecNew == InitNew /\ [][NextNew]_vars

\* ---------------------------------------------------------- aggregation
\* SpecAggregate: the calls of AggregateResults on a list of results over two
\* documents, each call with the list as the call before left it.  A text is one character, a content the sequence of the
\* strings written to it; a *Segment is the pair of its document and its
\* index in Document.Segments, so that pointer equality is equality of pairs.
\* The source defines AggregateResults twice (collection.go 442-498 and
\* 568-615); both definitions are modelled, each with its own action.
DocSegments == [a |-> <<"p", "q", "r">>, b |-> <<"s", "t">>]

AggResults ==
    UNION {[Document : {d}, Segment : DOMAIN DocSegments[d], Similarity : {1, 2}] :
             d \in DOMAIN DocSegments}

AggInputs == UNION {[1..n -> AggResults] : n \in 0..MaxResults}

\* The formatter of the tests: the ID, the metadata and the content with bars
\* between them.  The documents of the model have no metadata.
Format(docID, content) == <<docID, "|">> \o <<>> \o <<"|">> \o content

\* The loop that fills docSimilarityMap, keeping the first similarity seen.
RECURSIVE docSimilarityMapKeepsFirst(_, _)
docSimilarityMapKeepsFirst(results, m) ==
    IF results = <<>> THEN m
    ELSE LET r == Head(results)
         IN  docSimilarityMapKeepsFirst(Tail(results),
                 IF r.Document \notin DOMAIN m THEN m @@ (r.Document :> r.Similarity)
                 ELSE m)

\* The loop that fills docSimilarityMap (collection.go 452-462).
RECURSIVE docSimilarityMap(_, _)
docSimilarityMap(results, m) ==
    IF results = <<>> THEN m
    ELSE LET r == Head(results)
         IN  docSimilarityMap(Tail(results),
                 IF r.Document \notin DOMAIN m THEN m @@ (r.Document :> r.Similarity)
                 ELSE IF r.Similarity > m[r.Document]
                      THEN [m EXCEPT ![r.Document] = r.Similarity]
                      ELSE m)

\* What the inner loops write to contentBuilder for docID, from the segment
\* of index i on (index 1 is Go's index 0).
RECURSIVE contentBuilder(_, _, _)
contentBuilder(results, docID, i) ==
    IF i > Len(DocSegments[docID]) THEN <<>>
    ELSE (IF \E k \in DOMAIN results :
                 results[k].Document = docID /\ results[k].Segment = i
          THEN (IF i > 1 THEN <<"\n">> ELSE <<>>) \o <<DocSegments[docID][i]>>
          ELSE <<>>) \o contentBuilder(results, docID, i + 1)

\* The calls of the formatter for the documents in the order docIDs, and the
\* string returned.
Formatted(docIDs, content, after) ==
    LET calls == [k \in DOMAIN docIDs |-> [content |-> content[docIDs[k]], docID |-> docIDs[k]]]
    IN  [after |-> after, calls |-> calls,
         output |-> Concat([k \in DOMAIN calls |-> Format(calls[k].docID, calls[k].content)])]

\* AggregateResults of collection.go 442-498: its outcomes, one for each order
\* sort.Slice can leave docIDs in.
AggregateResults(results) ==
    LET sim == docSimilarityMap(results, [d \in {} |-> 0])
        content == [d \in DOMAIN sim |-> contentBuilder(results, d, 1)]
    IN  {Formatted(docIDs, content, results) :
           docIDs \in SortedPrefixes(sim, DOMAIN sim, Cardinality(DOMAIN sim))}

\* The loop of collection.go 582-595 that fills docContentMap.
RECURSIVE docContentMap(_, _)
docContentMap(results, m) ==
    IF results = <<>> THEN m
    ELSE LET r == Head(results)
             text == DocSegments[r.Document][r.Segment]
         IN  docContentMap(Tail(results),
                 IF r.Document \notin DOMAIN m THEN m @@ (r.Document :> <<text>>)
                 ELSE [m EXCEPT ![r.Document] = @ \o <<"\n", text>>])

\* AggregateResults of collection.go 568-615: it sorts results in place, then
\* adds up the texts in the order of the sorted list.
AggregateResultsSorted(results) ==
    UNION {LET sorted == [k \in DOMAIN results |-> results[order[k]]]
               sim == docSimilarityMapKeepsFirst(sorted, [d \in {} |-> 0])
               content == docContentMap(sorted, [d \in {} |-> <<>>])
           IN  {Formatted(docIDs, content, sorted) :
                  docIDs \in SortedPrefixes(sim, DOMAIN sim, Cardinality(DOMAIN sim))} :
           order \in SortedPrefixes([k \in DOMAIN results |-> results[k].Similarity],
                                    DOMAIN results, Len(results))}

\* The caller's list of results before the first call: returned.after is the
\* list as the last call left it, and the next call is made with it.
NoAggregate(results) ==
    [op |-> "", results |-> results, after |-> results, calls |-> <<>>, output |-> <<>>]

Aggregate(out) ==
    /\ returned' = [op |-> "AggregateResults", results |-> returned.after] @@ out
    /\ ret' = Return("AggregateResults", NoErr, 0)
    /\ UNCHANGED <<ChunkSize, ChunkOverlap, documents, documentsLock, pc, net, heap, multi, fan>>

AggregateSorted(out) ==
    /\ returned' = [op |-> "AggregateResults (568)", results |-> returned.after] @@ out
    /\ ret' = Return("AggregateResults (568)", NoErr, 0)
    /\ UNCHANGED <<ChunkSize, ChunkOverlap, documents, documentsLock, pc, net, heap, multi, fan>>

InitAggregate ==
    /\ ChunkSize = 1
    /\ ChunkOverlap = 0
    /\ documents = [id \in IDs |-> Nil]
    /\ documentsLock = Unlocked
    /\ pc = [p \in Procs |-> Idle]
    /\ net = 0
    /\ ret = Return("", NoErr, 0)
    /\ heap = NoHeap
    /\ multi = NoMulti
    /\ returned \in {NoAggregate(results) : results \in AggInputs}
    /\ fan = NoFan

NextAggregate ==
    \/ \E out \in AggregateResults(returned.after) : Aggregate(out)
    \/ \E out \in AggregateResultsSorted(returned.after) : AggregateSorted(out)

SpecAggregate == InitAggregate /\ [][NextAggregate]_vars

\* ------------------------------------------------------ composite IDs
\* SpecIDs: GetTopNSimilarDocuments makes the ID of a candidate from the key
\* of the document and the index of the segment, and
\* parseIDAndSegmentIndex takes the ID that comes back apart.  Init draws the
\* key, a string of letters, underscores and digits, and the index.
DocIDs == UNION {[1..n -> {"a", "_", "1"}] : n \in 0..MaxIDLen}

InitIDs ==
    /\ ChunkSize = 1
    /\ ChunkOverlap = 0
    /\ documents = [id \in IDs |-> Nil]
    /\ documentsLock = Unlocked
    /\ pc = [p \in Procs |-> Idle]
    /\ net = 0
    /\ ret = Return("", NoErr, 0)
    /\ heap = NoHeap
    /\ multi = NoMulti
    /\ returned \in [op : {""}, docID : DocIDs, segmentIndex : 0..MaxIndex]
    /\ fan = NoFan

\* ids = append(ids, fmt.Sprintf("%s_%d", docID, segmentIndex))
Sprintf ==
    /\ returned.op = ""
    /\ returned' = [returned EXCEPT !.op = "Sprintf"]
                      @@ [id |-> SegmentID(returned.docID, returned.segmentIndex)]
    /\ UNCHANGED <<ChunkSize, ChunkOverlap, documents, documentsLock, pc, net, ret, heap, multi, fan>>

\* docID, segmentIndex, err := parseIDAndSegmentIndex(sim.ID)
ParseID ==
    /\ returned.op = "Sprintf"
    /\ returned' = [returned EXCEPT !.op = "parseIDAndSegmentIndex"]
                      @@ [parsed |-> parseIDAndSegmentIndex(returned.id)]
    /\ UNCHANGED <<ChunkSize, ChunkOverlap, documents, documentsLock, pc, net, ret, heap, multi, fan>>

NextIDs == Sprintf \/ ParseID

SpecIDs == InitIDs /\ [][NextIDs]_vars

\* ------------------------------------------------------- the fan-outs
\* SpecFan: GetTopNSimilarDocumentsForQueries goroutine by goroutine.  The
\* call starts one goroutine per query; each calls GetTopNSimilarDocuments,
\* which asks the embedding function, starts one goroutine per candidate in
\* getTopNSimilarEmbeddings, waits, sorts and cuts, starts one goroutine per
\* similarity, waits and returns; the call waits for the goroutines of the
\* queries and returns.  The store holds one document whose second segment
\* is not of the dimensionality of the first, so that a scoring goroutine
\* and a resolving goroutine return early; it may have a third segment, of
\* another score than the first or of the same.  Nobody writes, so the read lock
\* is always granted and is left out.  An unrecovered panic ends the
\* program: after it no goroutine takes a step and no call returns.
FanDocuments ==
    {Document(<<"a">>, Text(1), <<Segment(<<1>>, <<6, 8>>), Segment(<<2>>, <<10>>)>> \o rest) :
       rest \in {<<>>, <<Segment(<<3>>, <<10, 0>>)>>, <<Segment(<<3>>, <<6, 8>>)>>}}

FanResponses ==
    {Response(TRUE, <<>>), Response(FALSE, <<<<3, 4>>>>), Response(FALSE, <<<<0, 0>>>>)}

\* A goroutine of a query that has not called GetTopNSimilarDocuments yet.
\* appended keeps the results in the order of the appends, which the sort
\* after the last wg.Wait() overwrites.
NoTask == [at |-> "go", norm |-> <<>>, score |-> <<>>, similarities |-> <<>>,
           resolve |-> <<>>, results |-> <<>>, appended |-> <<>>]

ForQueriesCall(n, topN) ==
    /\ ~fan.running
    /\ fan' = [running |-> TRUE, panic |-> FALSE, topN |-> topN, errNum |-> 0,
               task |-> [q \in 1..n |-> NoTask]]
    /\ returned' = NoCall
    /\ UNCHANGED <<ChunkSize, ChunkOverlap, documents, documentsLock, pc, net, ret, heap, multi>>

Live(q) == fan.running /\ ~fan.panic /\ q \in DOMAIN fan.task

\* The goroutine of query q up to the loop that starts the scoring
\* goroutines: the embedding function answers resp.
QueryEmbed(q, resp) ==
    /\ Live(q) /\ fan.task[q].at = "go"
    /\ LET flat == Flatten(<<<<"a">>>>)
           embeddings == [i \in DOMAIN flat |-> flat[i].embedding]
           err == IF resp.err THEN ErrGenerator
                  ELSE IF Len(resp.vecs) = 0 THEN ErrNoQueryEmbedding
                  ELSE rankChecks(resp.vecs[1], embeddings)
       IN  fan' = IF err # NoErr
                  THEN [fan EXCEPT !.errNum = @ + 1, !.task[q].at = "done"]
                  ELSE [fan EXCEPT !.task[q].at = "scoring",
                                   !.task[q].norm = normalizeVector(resp.vecs[1]).vec,
                                   !.task[q].score = [i \in DOMAIN flat |-> "go"],
                                   !.task[q].similarities =
                                       [i \in DOMAIN flat |-> Similarity(<<>>, 0)]]
    /\ UNCHANGED <<ChunkSize, ChunkOverlap, documents, documentsLock, pc, net, ret, heap, multi,
                   returned>>

\* A scoring goroutine that writes into the first slot no goroutine has
\* written to yet, so in the order the goroutines finish.
ScoreTaskAppends(q, i) ==
    /\ Live(q) /\ fan.task[q].at = "scoring"
    /\ i \in DOMAIN fan.task[q].score /\ fan.task[q].score[i] = "go"
    /\ LET flat == Flatten(<<<<"a">>>>)
           d == dotProduct(fan.task[q].norm, flat[i].embedding)
           slot == 1 + Cardinality({k \in DOMAIN fan.task[q].score : fan.task[q].score[k] = "done"})
       IN  fan' = [fan EXCEPT !.task[q].score[i] = "done",
                              !.task[q].similarities[slot] =
                                  IF d.err THEN @ ELSE Similarity(flat[i].id, d.val)]
    /\ UNCHANGED <<ChunkSize, ChunkOverlap, documents, documentsLock, pc, net, ret, heap, multi,
                   returned>>

\* The scoring goroutine of candidate i: defer wg.Done(), and a return
\* without a write when dotProduct fails.
ScoreTask(q, i) ==
    /\ Live(q) /\ fan.task[q].at = "scoring"
    /\ i \in DOMAIN fan.task[q].score /\ fan.task[q].score[i] = "go"
    /\ LET flat == Flatten(<<<<"a">>>>)
           d == dotProduct(fan.task[q].norm, flat[i].embedding)
       IN  fan' = [fan EXCEPT !.task[q].score[i] = "done",
                              !.task[q].similarities[i] =
                                  IF d.err THEN @ ELSE Similarity(flat[i].id, d.val)]
    /\ UNCHANGED <<ChunkSize, ChunkOverlap, documents, documentsLock, pc, net, ret, heap, multi,
                   returned>>

\* After wg.Wait() in getTopNSimilarEmbeddings: the sort, similarities[:topN],
\* which panics for a negative topN, and the loop that starts the resolving
\* goroutines.
ScoreJoin(q) ==
    /\ Live(q) /\ fan.task[q].at = "scoring"
    /\ \A i \in DOMAIN fan.task[q].score : fan.task[q].score[i] = "done"
    /\ LET similarities == fan.task[q].similarities
           topN == IF fan.topN > Len(similarities) THEN Len(similarities) ELSE fan.topN
       IN  IF topN < 0 THEN fan' = [fan EXCEPT !.panic = TRUE]
           ELSE \E p \in SortedPrefixes([i \in DOMAIN similarities |-> similarities[i].Score],
                                         DOMAIN similarities, topN) :
                  fan' = [fan EXCEPT !.task[q].at = "resolving",
                                     !.task[q].similarities = [j \in 1..Len(p) |-> similarities[p[j]]],
                                     !.task[q].resolve = [j \in 1..Len(p) |-> "go"]]
    /\ UNCHANGED <<ChunkSize, ChunkOverlap, documents, documentsLock, pc, net, ret, heap, multi,
                   returned>>

\* The resolving goroutine of similarity j: defer wg.Done(), and a return
\* without an append for an ID that does not parse, a document that is not
\* there or an index out of bounds.
ResolveTask(q, j) ==
    /\ Live(q) /\ fan.task[q].at = "resolving"
    /\ j \in DOMAIN fan.task[q].resolve /\ fan.task[q].resolve[j] = "go"
    /\ LET sim == fan.task[q].similarities[j]
           at == parseIDAndSegmentIndex(sim.ID)
           skip == \/ at.err
                   \/ at.docID \notin Keys
                   \/ at.segmentIndex < 0
                   \/ at.segmentIndex >= Len(documents[at.docID].Segments)
       IN  fan' = [fan EXCEPT !.task[q].resolve[j] = "done",
                              !.task[q].results =
                                  IF skip THEN @
                                  ELSE Append(@, Result(documents[at.docID], at.segmentIndex,
                                                        sim.Score))]
    /\ UNCHANGED <<ChunkSize, ChunkOverlap, documents, documentsLock, pc, net, ret, heap, multi,
                   returned>>

\* After wg.Wait() in GetTopNSimilarDocuments: it sorts the results and
\* returns them to the goroutine of the query, which keeps them and is done.
ResolveJoin(q) ==
    /\ Live(q) /\ fan.task[q].at = "resolving"
    /\ \A j \in DOMAIN fan.task[q].resolve : fan.task[q].resolve[j] = "done"
    /\ LET results == fan.task[q].results
       IN  \E p \in SortedPrefixes([j \in DOMAIN results |-> results[j].Similarity],
                                     DOMAIN results, Len(results)) :
             fan' = [fan EXCEPT !.task[q].at = "done",
                                !.task[q].appended = results,
                                !.task[q].results = [j \in DOMAIN results |-> results[p[j]]]]
    /\ UNCHANGED <<ChunkSize, ChunkOverlap, documents, documentsLock, pc, net, ret, heap, multi,
                   returned>>

\* After wg.Wait() in GetTopNSimilarDocumentsForQueries.
ForQueriesJoin ==
    /\ fan.running /\ ~fan.panic
    /\ \A q \in DOMAIN fan.task : fan.task[q].at = "done"
    /\ returned' = [op |-> "GetTopNSimilarDocumentsForQueries", topN |-> fan.topN,
                    errNum |-> fan.errNum, task |-> fan.task,
                    err |-> IF fan.errNum = Len(fan.task) THEN ErrAllQueries ELSE NoErr]
    /\ fan' = NoFan
    /\ UNCHANGED <<ChunkSize, ChunkOverlap, documents, documentsLock, pc, net, ret, heap, multi>>

InitFan ==
    /\ ChunkSize = 1
    /\ ChunkOverlap = 0
    /\ \E doc \in FanDocuments : documents = [id \in IDs |-> IF id = <<"a">> THEN doc ELSE Nil]
    /\ documentsLock = Unlocked
    /\ pc = [p \in Procs |-> Idle]
    /\ net = 0
    /\ ret = Return("NewCollection", NoErr, 0)
    /\ heap = NoHeap
    /\ multi = NoMulti
    /\ returned = NoCall
    /\ fan = NoFan

NextFan ==
    \/ \E n \in 0..MaxQueries : \E topN \in (-1)..MaxSearchTopN : ForQueriesCall(n, topN)
    \/ \E q \in 1..MaxQueries :
         \/ \E resp \in FanResponses : QueryEmbed(q, resp)
         \/ \E i \in 1..MaxSegs : ScoreTask(q, i)
         \/ ScoreJoin(q)
         \/ \E j \in 1..MaxSegs : ResolveTask(q, j)
         \/ ResolveJoin(q)
    \/ ForQueriesJoin

\* The scheduler runs every goroutine that can take a step, and the
\* embedding function returns.
SpecFan == InitFan /\ [][NextFan]_vars /\ WF_vars(NextFan)

\* ================================================================ claims
\* The documents a caller can pass: new ones, and the ones it has stored.
Inputs == InputDocs \cup {documents[id] : id \in Keys}

IsZero(v) == \A i \in DOMAIN v : v[i] = 0

\* C1: AddDocument with an ID that is already present returns the duplicate-ID
\* error and leaves the map as it was: the document stored under that ID and
\* Length() are the same after the call as before it.
C1_DuplicateAddRejected ==
    [][ret'.op = "AddDocument" =>
          \A doc \in Inputs : \A resp \in AddResponses(doc) :
              (documents[doc.ID] # Nil /\ AddDocument(doc, resp))
                  => /\ ret'.err = ErrExists
                     /\ documents' = documents
                     /\ Length' = Length]_vars

C1_Witness == ret.op = "AddDocument" /\ ret.err = ErrExists /\ Length >= 1

\* C2 as claimed: DeleteDocument(id) and UpdateDocument(doc) on an ID that is
\* not present return the not-found error and leave the map unchanged.
C2_AbsentIDNotFound ==
    [][/\ ret'.op = "DeleteDocument" =>
            \A id \in IDs : (documents[id] = Nil /\ DeleteDocument(id))
                => (ret'.err = ErrNotFound /\ documents' = documents)
       /\ ret'.op = "UpdateDocument" =>
            \A doc \in Inputs : (documents[doc.ID] = Nil /\ UpdateDocument(doc))
                => (ret'.err = ErrNotFound /\ documents' = documents)]_vars

\* C2 as amended: DeleteDocument(id) on an ID that is not present, and
\* UpdateDocument(doc) on a non-empty ID that is not present, return the
\* not-found error and leave the map unchanged; UpdateDocument of a document
\* with an empty ID returns the ID-required error, map unchanged.  A
\* DeleteDocument of a present ID succeeds and removes it, so that a second
\* DeleteDocument of the same ID fails.
C2_AbsentIDNotFoundAmended ==
    [][/\ ret'.op = "DeleteDocument" =>
            \A id \in IDs : DeleteDocument(id) =>
                IF documents[id] = Nil
                THEN ret'.err = ErrNotFound /\ documents' = documents
                ELSE ret'.err = NoErr /\ documents'[id] = Nil
                     /\ deleteDocument(id)' = ErrNotFound
       /\ ret'.op = "UpdateDocument" =>
            \A doc \in Inputs : (documents[doc.ID] = Nil /\ UpdateDocument(doc))
                => /\ ret'.err = IF doc.ID = <<>> THEN ErrIDRequired ELSE ErrNotFound
                   /\ documents' = documents]_vars

C2_Witness == ret.op = "UpdateDocument" /\ ret.err = ErrNotFound /\ Length >= 1

\* C3 as claimed: AddDocument and UpdateDocument return a validation error
\* and leave the map unchanged whenever the document's ID or content is empty.
C3_EmptyIsValidationError ==
    [][/\ ret'.op = "AddDocument" =>
            \A doc \in Inputs : \A resp \in AddResponses(doc) :
                ((doc.ID = <<>> \/ doc.Content = <<>>) /\ AddDocument(doc, resp))
                    => /\ ret'.err \in {ErrIDRequired, ErrContentRequired}
                       /\ documents' = documents
       /\ ret'.op = "UpdateDocument" =>
            \A doc \in Inputs :
                ((doc.ID = <<>> \/ doc.Content = <<>>) /\ UpdateDocument(doc))
                    => /\ ret'.err \in {ErrIDRequired, ErrContentRequired}
                       /\ documents' = documents]_vars

\* C3 as amended: whenever the document's ID or content is empty, AddDocument
\* and UpdateDocument return an error and leave the map unchanged.  The error
\* is the ID-required error when the ID is empty; with a non-empty ID and
\* empty content it is the content-required error when the ID passes the
\* presence check of the operation, and otherwise the error of that check:
\* duplicate ID for AddDocument, not found for UpdateDocument.
C3_EmptyIsRejected ==
    [][/\ ret'.op = "AddDocument" =>
            \A doc \in Inputs : \A resp \in AddResponses(doc) :
                ((doc.ID = <<>> \/ doc.Content = <<>>) /\ AddDocument(doc, resp))
                    => /\ ret'.err = IF doc.ID = <<>> THEN ErrIDRequired
                                     ELSE IF documents[doc.ID] # Nil THEN ErrExists
                                     ELSE ErrContentRequired
                       /\ documents' = documents
       /\ ret'.op = "UpdateDocument" =>
            \A doc \in Inputs :
                ((doc.ID = <<>> \/ doc.Content = <<>>) /\ UpdateDocument(doc))
                    => /\ ret'.err = IF doc.ID = <<>> THEN ErrIDRequired
                                     ELSE IF documents[doc.ID] = Nil THEN ErrNotFound
                                     ELSE ErrContentRequired
                       /\ documents' = documents]_vars

C3_Witness == ret.op = "UpdateDocument" /\ ret.err = ErrContentRequired /\ Length >= 1

\* C4: if the embedding function returns an error, or any vector it returns
\* is a zero vector, AddDocument returns an error and does not insert the
\* document: the map and Length() are unchanged and GetDocument of that ID
\* reports not-found.
C4_FailedEmbeddingNotInserted ==
    [][(ret'.op = "AddDocument" /\ ret'.gen = 1) =>
          \A doc \in Inputs : \A resp \in AddResponses(doc) :
              (/\ ~resp.none
               /\ resp.err \/ \E i \in DOMAIN resp.vecs : IsZero(resp.vecs[i])
               /\ AddDocument(doc, resp))
                  => /\ ret'.err # NoErr
                     /\ documents' = documents
                     /\ Length' = Length
                     /\ ~(GetDocument(doc.ID).ok)']_vars

C4_Witness == ret.op = "AddDocument" /\ ret.err = ErrZeroVector /\ ret.gen = 1

\* The windows of a content as section 4.2 of the specification gives them:
\* window k (from 0) is [k*(S-O), min(k*(S-O)+S, L)), for every k*(S-O) < L.
Stride == ChunkSize - ChunkOverlap
NumWindows(L) == (L + Stride - 1) \div Stride
Window(content, k) ==
    SubSeq(content, k * Stride + 1,
           IF k * Stride + ChunkSize > Len(content) THEN Len(content)
           ELSE k * Stride + ChunkSize)
Windows(content) == [k \in 1..NumWindows(Len(content)) |-> Window(content, k - 1)]

Texts(segments) == [i \in DOMAIN segments |-> segments[i].Text]

\* C5: after a successful AddDocument, the embedding function having returned
\* one vector per text, the stored document has exactly one segment per
\* window of its content, in window order, segment k holding the text of the
\* window that starts at offset k*(S-O).
C5_AddStoresOneSegmentPerWindow ==
    [][(ret'.op = "AddDocument" /\ ret'.err = NoErr) =>
          \A doc \in Inputs : \A resp \in AddResponses(doc) :
              (Len(resp.vecs) = NumWindows(Len(doc.Content)) /\ AddDocument(doc, resp))
                  => Texts(documents'[doc.ID].Segments) = Windows(doc.Content)]_vars

\* C6: after a successful EmbedDocuments every stored document's segment list
\* is exactly the window sequence of its current content: the old segments
\* are overwritten, not kept.
C6_EmbedOverwritesSegments ==
    (ret.op = "EmbedDocuments" /\ ret.err = NoErr)
        => \A id \in Keys : Texts(documents[id].Segments) = Windows(documents[id].Content)

\* C7: UpdateDocument on an existing ID with non-empty content never calls
\* the embedding function and replaces the stored document wholesale:
\* afterwards GetDocument(id) returns the supplied document, every other
\* stored document is unchanged and Length() is unchanged.
C7_UpdateReplacesWholesale ==
    [][ret'.op = "UpdateDocument" =>
          \A doc \in Inputs :
              (documents[doc.ID] # Nil /\ doc.Content # <<>> /\ UpdateDocument(doc))
                  => /\ ret'.err = NoErr
                     /\ ret'.gen = 0
                     /\ GetDocument(doc.ID)' = [doc |-> doc, ok |-> TRUE]
                     /\ \A id \in IDs \ {doc.ID} : documents'[id] = documents[id]
                     /\ Length' = Length]_vars

C7_Witness == ret.op = "UpdateDocument" /\ ret.err = NoErr /\ Length = 2

\* C8: when EmbedDocuments fails on some document (the embedding function
\* returns an error or a zero vector) it returns that error without going on
\* to any further document: the documents it went through before keep their
\* newly generated segments, the failing document and the documents not yet
\* visited keep the segments they had, and the set of stored IDs is unchanged.
C8_EmbedFailsFast ==
    [][(ret'.op = "EmbedDocuments" /\ ret'.err \in {ErrGenerator, ErrZeroVector}) =>
          LET order == ret'.order
              n == ret'.n
          IN  /\ n < Len(order)
              /\ ret'.gen = n + 1
              /\ Keys' = Keys
              /\ \A i \in 1..Len(order) :
                    LET old == documents[order[i]]
                        new == documents'[order[i]]
                    IN  IF i <= n
                        THEN /\ Len(new.Segments) = Len(old.Segments) + NumWindows(Len(old.Content))
                             /\ SubSeq(new.Segments, 1, Len(old.Segments)) = old.Segments
                             /\ Texts(SubSeq(new.Segments, Len(old.Segments) + 1, Len(new.Segments)))
                                    = Windows(old.Content)
                             /\ new = [old EXCEPT !.Segments = new.Segments]
                        ELSE new = old]_vars

C8_Witness ==
    ret.op = "EmbedDocuments" /\ ret.err \in {ErrGenerator, ErrZeroVector} /\ ret.n = 1

\* C9: in every reachable state Length() is the number of distinct IDs of the
\* stored documents, which is the number of successful AddDocument calls
\* minus the number of successful DeleteDocument calls (net); and a step that
\* is a failed operation, an UpdateDocument, an EmbedDocuments or a search
\* leaves Length and the set of IDs present as they are.
C9_LengthCountsAddsMinusDeletes ==
    /\ [](/\ Length = Cardinality({documents[id].ID : id \in Keys})
          /\ Length = net)
    /\ [][(ret'.err # NoErr \/ ret'.op \notin {"AddDocument", "DeleteDocument"})
             => Length' = Length /\ Keys' = Keys]_vars

\* Two documents were added and one of them has just been deleted.
C9_Witness ==
    ret.op = "DeleteDocument" /\ ret.err = NoErr /\ Length = 1 /\ net = 1

\* A caller is inside the critical section of a write, of a read.
InWrite(p) == pc[p].op \in WriteOps /\ pc[p].at \in {"body", "embeddingFunc"}
InRead(p) == pc[p].op \in ReadOps /\ pc[p].at \in {"body", "embeddingFunc"}

\* C10: under every interleaving of concurrent callers, while a write
\* operation is past its first statement (the Lock) and has not returned,
\* the wait for the embedding function included, it holds the lock and no
\* other caller is inside the critical section of a write or of a read.
C10_WritesAreExclusive ==
    \A p \in Procs :
        InWrite(p) => /\ documentsLock = [writer |-> p, readers |-> {}]
                      /\ \A q \in Procs \ {p} : ~InWrite(q) /\ ~InRead(q)

\* EmbedDocuments has written the first document and waits for the embedding
\* function on the second, while another caller stands before its RLock.
C10_Witness ==
    \E p, q \in Procs :
        /\ pc[p].op = "EmbedDocuments" /\ pc[p].at = "embeddingFunc" /\ pc[p].i = 2
        /\ Len(documents[pc[p].order[1]].Segments) > 0
        /\ pc[q].op \in ReadOps /\ pc[q].at = "RLock"

\* The caller's handle: the pointer GetDocument returned, the value taken out
\* of the map GetDocuments returned.
HoldsGetDocument == heap.used /\ heap.ptr # Null /\ heap.from = "GetDocument"
HoldsGetDocuments == heap.used /\ heap.copy.held
CollectionWrites == {"UpdateDocument", "DeleteDocument", "EmbedDocuments"}
PtrWrites == {"ptr.Content =", "ptr.Segments ="}
CopyWrites == {"copy.Content =", "copy.Segments[0].Text ="}

\* C11: what GetDocument and GetDocuments return is a snapshot by value: a
\* later UpdateDocument, DeleteDocument or EmbedDocuments leaves the value the
\* caller reads through it as it was, and a write of the caller through it
\* (content, segment list, a segment) leaves the stored documents as they were.
C11_ReturnedValueIsSnapshot ==
    [][/\ (HoldsGetDocument /\ ret'.op \in CollectionWrites /\ heap'.ptr = heap.ptr)
            => Deref(heap', heap.ptr) = Deref(heap, heap.ptr)
       /\ (HoldsGetDocuments /\ ret'.op \in CollectionWrites)
            => CopyValue(heap') = CopyValue(heap)
       /\ (HoldsGetDocument /\ ret'.op \in PtrWrites) => documents' = documents
       /\ (HoldsGetDocuments /\ ret'.op \in CopyWrites) => documents' = documents]_vars

\* The caller's pointer is a Document of its own making that the map holds.
HoldsStoredOwn ==
    /\ heap.used /\ heap.ptr # Null /\ heap.from = "caller"
    /\ \E id \in IDs : heap.index[id] = heap.ptr

\* C12: after AddDocument or UpdateDocument has stored a document, a write of
\* the caller to the Document it passed leaves what the collection holds, and
\* so what GetDocument, GetDocuments and the search read, as it was.
C12_StoredStateIsOwned ==
    [][(HoldsStoredOwn /\ ret'.op \in PtrWrites) => documents' = documents]_vars

\* The stored segments, as (document ID, index) pairs, and the query of the
\* recorded search with the score it gives a stored segment.
StoredSegments == UNION {{<<id, i>> : i \in DOMAIN documents[id].Segments} : id \in Keys}
Searched == returned.op = "GetTopNSimilarDocuments"
Answered == Searched /\ ~returned.resp.err /\ Len(returned.resp.vecs) > 0
Query == returned.resp.vecs[1]
Mismatches(s) == Len(documents[s[1]].Segments[s[2]].Embedding) # Len(Query)
ScoreOf(s) == Dot(normalizeVector(Query).vec, documents[s[1]].Segments[s[2]].Embedding)
Returned(s) ==
    \E j \in DOMAIN returned.results :
        returned.results[j].Document.ID = s[1] /\ returned.results[j].SegmentIndex = s[2] - 1

\* C13: when every stored segment has the query's dimensionality, a
\* successful search with topN >= 0 over T stored segments returns exactly
\* min(topN, T) results in non-increasing order of score; each result is a
\* stored document with one of its own segments and that segment's score; no
\* (document, segment) pair is returned twice; and no segment left out scores
\* strictly higher than a returned one.
C13_SearchReturnsTheTopSegments ==
    (/\ Answered /\ returned.err = NoErr /\ returned.topN >= 0
     /\ \A s \in StoredSegments : ~Mismatches(s))
    => LET r == returned.results
           T == Cardinality(StoredSegments)
       IN  /\ Len(r) = IF returned.topN < T THEN returned.topN ELSE T
           /\ \A j \in 1..(Len(r) - 1) : r[j].Similarity >= r[j + 1].Similarity
           /\ \A j \in DOMAIN r :
                 /\ <<r[j].Document.ID, r[j].SegmentIndex + 1>> \in StoredSegments
                 /\ r[j].Document = documents[r[j].Document.ID]
                 /\ r[j].Segment = r[j].Document.Segments[r[j].SegmentIndex + 1]
                 /\ r[j].Similarity = ScoreOf(<<r[j].Document.ID, r[j].SegmentIndex + 1>>)
           /\ \A j, k \in DOMAIN r :
                 j # k => <<r[j].Document.ID, r[j].SegmentIndex>> # <<r[k].Document.ID, r[k].SegmentIndex>>
           /\ \A s \in StoredSegments :
                 ~Returned(s) => \A j \in DOMAIN r : ScoreOf(s) <= r[j].Similarity

\* Two documents with three segments of the query's dimensionality between
\* them; the search for the best two returned two results of different
\* scores and left a segment out.
C13_Witness ==
    /\ Answered /\ returned.err = NoErr /\ returned.topN = 2
    /\ Cardinality(Keys) = 2 /\ Cardinality(StoredSegments) = 3
    /\ \A s \in StoredSegments : ~Mismatches(s)
    /\ Len(returned.results) = 2
    /\ returned.results[1].Similarity > returned.results[2].Similarity

\* The recorded call of the search for many queries, the queries whose own
\* search succeeded, and all the results these returned.
Merged == returned.op = "GetTopNSimilarDocumentsForQueries"
Succeeded == {i \in DOMAIN returned.out : returned.out[i].err = NoErr}
PerQueryResults == UNION {Range(returned.out[i].results) : i \in Succeeded}

\* C14: the result of a successful search for many queries holds each
\* document ID once at most, and for it a (segment, score) pair that some
\* successful query returned and that no such pair of the same document
\* outscores; it is in non-increasing order of score and has topN entries at
\* most.
C14_MergeKeepsBestPerDocument ==
    (Merged /\ returned.err = NoErr)
    => LET r == returned.results
       IN  /\ \A j, k \in DOMAIN r : j # k => r[j].Document.ID # r[k].Document.ID
           /\ \A j \in DOMAIN r :
                 /\ r[j] \in PerQueryResults
                 /\ \A x \in PerQueryResults :
                       x.Document.ID = r[j].Document.ID => x.Similarity <= r[j].Similarity
           /\ \A j \in 1..(Len(r) - 1) : r[j].Similarity >= r[j + 1].Similarity
           /\ Len(r) <= returned.topN

\* Two queries succeeded and both returned the same document, the second
\* with the higher score; the merged result has the document once, with
\* that score.
C14_Witness ==
    /\ Merged /\ returned.err = NoErr /\ Succeeded = {1, 2}
    /\ \E x \in Range(returned.out[1].results) : \E y \in Range(returned.out[2].results) :
          /\ x.Document.ID = y.Document.ID /\ x.Similarity < y.Similarity
          /\ \E j \in DOMAIN returned.results : returned.results[j] = y
          /\ \A j \in DOMAIN returned.results : returned.results[j] # x

\* The results the successful queries returned, in the order of the queries.
RECURSIVE SuccessfulResults(_)
SuccessfulResults(out) ==
    IF out = <<>> THEN <<>>
    ELSE (IF Head(out).err = NoErr THEN <<Head(out).results>> ELSE <<>>)
         \o SuccessfulResults(Tail(out))

\* C15: the search for many queries fails exactly when the search of every
\* single query failed; the failures are counted exactly under every
\* interleaving of the queries; and when one query at least succeeded, the
\* result is a merge of the results of the successful queries alone, as if
\* the failed ones had not been passed.
C15_FailsOnlyWhenAllQueriesFail ==
    Merged
    => /\ returned.err # NoErr <=> Succeeded = {}
       /\ returned.errNum = Len(returned.out) - Cardinality(Succeeded)
       /\ returned.err # NoErr => returned.results = <<>>
       /\ Succeeded # {}
            => returned.results \in mergeResults(SuccessfulResults(returned.out), returned.topN)

\* Of two queries the first failed and the second succeeded: one failure was
\* counted and the call returns results.
C15_Witness ==
    /\ Merged /\ returned.err = NoErr /\ Len(returned.out) = 2 /\ Succeeded = {2}
    /\ returned.errNum = 1 /\ Len(returned.results) > 0

\* C16: a search whose embedding function fails returns that error and no
\* results, one whose embedding function returns an empty list returns an
\* error and no results, and no search changes the document map or a stored
\* document.
C16_SearchFailsWithoutQueryEmbedding ==
    [][ret'.op = "GetTopNSimilarDocuments"
         => \A resp \in QueryResponses : \A topN \in TopNs :
              GetTopNSimilarDocuments(resp, topN)
              => /\ documents' = documents
                 /\ resp.err => ret'.err = ErrGenerator /\ ret'.n = 0
                 /\ (~resp.err /\ Len(resp.vecs) = 0)
                      => ret'.err = ErrNoQueryEmbedding /\ ret'.n = 0]_vars

\* A search over a store of two documents got an empty list from the
\* embedding function.
C16_Witness ==
    ret.op = "GetTopNSimilarDocuments" /\ ret.err = ErrNoQueryEmbedding /\ ret.n = 0 /\ Length = 2

\* C17 as stated: when the store holds a segment whose embedding has another
\* dimensionality than the query's, the search fails with the error of
\* mismatching lengths, whichever document and segment carries it and in
\* whatever order the store is visited (the query not being the zero vector
\* and topN not negative).
C17_AnyMismatchFails ==
    (/\ Answered /\ returned.topN >= 0 /\ normalizeVector(Query).err = NoErr
     /\ \E s \in StoredSegments : Mismatches(s))
    => returned.err = ErrLength

\* C17, amended: the search fails with the error of mismatching lengths
\* exactly when the store holds a segment and the segment visited first (the
\* first segment of the first document with segments in the order the map is
\* ranged over) has another dimensionality than the query's; a segment of
\* another dimensionality elsewhere does not fail the search and is never
\* among the results.
C17_FirstVisitedDecides ==
    Answered
    => LET flat == Flatten(returned.order)
       IN  /\ returned.err = ErrLength
                <=> (flat # <<>> /\ Len(flat[1].embedding) # Len(Query))
           /\ returned.err = NoErr
                => \A j \in DOMAIN returned.results :
                      ~Mismatches(<<returned.results[j].Document.ID,
                                    returned.results[j].SegmentIndex + 1>>)

\* A search succeeded and returned a result although the store holds a
\* segment of another dimensionality than the query's.
C17_Witness ==
    /\ Answered /\ returned.err = NoErr /\ Len(returned.results) > 0
    /\ \E s \in StoredSegments : Mismatches(s)

\* An embedding of unit length; one made by normalizing a vector of the
\* embedding function; segs continuing old by segments so made only.
IsUnit(v) == SumSq(v) = Scale * Scale
IsNormalized(v) == IsUnit(v) /\ \E g \in GenVecs : normalizeVector(g) = [err |-> NoErr, vec |-> v]
Extends(segs, old) ==
    /\ Len(segs) >= Len(old)
    /\ SubSeq(segs, 1, Len(old)) = old
    /\ \A i \in (Len(old) + 1)..Len(segs) : IsNormalized(segs[i].Embedding)

Split == returned.op = "splitText"
Starts(L) == {i \in 0..(L - 1) : i % Stride = 0}
CeilDiv(a, b) == -((-a) \div b)

\* C19: splitText returns, in order, exactly the windows [i, min(i+S, L)) of
\* the text for i = 0, S-O, 2(S-O), ... while i < L, and every position of
\* [0, L) lies in one of them.
C19_SplitTextMakesTheWindows ==
    Split
    => LET text == returned.text
           chunks == returned.chunks
           L == Len(text)
       IN  /\ Len(chunks) = Cardinality(Starts(L))
           /\ \A k \in DOMAIN chunks :
                 /\ (k - 1) * Stride \in Starts(L)
                 /\ chunks[k] = SubSeq(text, (k - 1) * Stride + 1,
                                       IF (k - 1) * Stride + ChunkSize < L
                                       THEN (k - 1) * Stride + ChunkSize ELSE L)
           /\ \A pos \in 1..L :
                 \E k \in DOMAIN chunks : \E j \in DOMAIN chunks[k] : chunks[k][j] = text[pos]

\* A text of seven runes was split with chunk size 3 and overlap 1: four
\* windows, the last one short.
C19_Witness ==
    /\ Split /\ ChunkSize = 3 /\ ChunkOverlap = 1 /\ Len(returned.text) = 7
    /\ Len(returned.chunks) = 4 /\ Len(returned.chunks[4]) = 1

\* C20 as stated: for a text of L >= 1 runes the number of windows is
\* ceil((L - O) / (S - O)).
C20_WindowCount ==
    (Split /\ Len(returned.text) >= 1)
    => Len(returned.chunks) = CeilDiv(Len(returned.text) - ChunkOverlap, Stride)

\* C20, amended: for a text of L >= 1 runes the number of windows is
\* ceil(L / (S - O)), one for every start below L; that is never less than
\* ceil((L - O) / (S - O)), and the same when O = 0.
C20_WindowCountAmended ==
    (Split /\ Len(returned.text) >= 1)
    => LET L == Len(returned.text)
       IN  /\ Len(returned.chunks) = CeilDiv(L, Stride)
           /\ Len(returned.chunks) >= CeilDiv(L - ChunkOverlap, Stride)
           /\ ChunkOverlap = 0 => Len(returned.chunks) = CeilDiv(L - ChunkOverlap, Stride)

\* A text of three runes was split with chunk size 2 and overlap 1 into
\* three windows, where ceil((L - O) / (S - O)) is two.
C20_Witness ==
    /\ Split /\ ChunkSize = 2 /\ ChunkOverlap = 1 /\ Len(returned.text) = 3
    /\ Len(returned.chunks) = 3

\* The recorded call of the ranker: its candidates, the ones of the query's
\* dimensionality, the score of candidate i, and the record it gets.
Ranked == returned.op = "getTopNSimilarEmbeddings"
RankedAll == DOMAIN returned.embeddings
Fits(i) == Len(returned.embeddings[i]) = Len(returned.query)
RankScore(i) == Dot(normalizeVector(returned.query).vec, returned.embeddings[i])
RecordOf(i) == Similarity(returned.ids[i], RankScore(i))
MinOf(a, b) == IF a < b THEN a ELSE b

\* What C21 says of the records over the candidates of the set C: there are
\* exactly min(topN, |C|) of them, in non-increasing order of score, each the
\* record of a candidate of C, no candidate twice, and no candidate of C left
\* out scores strictly higher than a returned one.
RanksTheTop(sims, C) ==
    /\ Len(sims) = MinOf(returned.topN, Cardinality(C))
    /\ \A j \in 1..(Len(sims) - 1) : sims[j].Score >= sims[j + 1].Score
    /\ \E pick \in [DOMAIN sims -> C] :
          /\ \A j \in DOMAIN sims : sims[j] = RecordOf(pick[j])
          /\ \A j, k \in DOMAIN sims : j # k => pick[j] # pick[k]
          /\ \A i \in C \ Range(pick) : \A j \in DOMAIN sims : RankScore(i) <= sims[j].Score

\* C21 as stated: for every non-empty list of candidates of the query's
\* dimensionality and every topN >= 0 the ranker returns the records of the
\* top min(topN, number of candidates) candidates.
C21_RankerReturnsTheTop ==
    (/\ Ranked /\ returned.embeddings # <<>> /\ returned.topN >= 0
     /\ \A i \in RankedAll : Fits(i))
    => returned.err = NoErr /\ RanksTheTop(returned.sims, RankedAll)

\* C21, amended: the same for every query that is not the zero vector; for
\* the zero vector the ranker returns the error of normalizeVector and no
\* record.
C21_RankerReturnsTheTopUnlessZero ==
    (/\ Ranked /\ returned.embeddings # <<>> /\ returned.topN >= 0
     /\ \A i \in RankedAll : Fits(i))
    => IF IsZero(returned.query)
       THEN returned.err = ErrZeroVector /\ returned.sims = <<>>
       ELSE returned.err = NoErr /\ RanksTheTop(returned.sims, RankedAll)

\* The query <<3, 4>> was ranked against three candidates of two different
\* scores, all of its dimensionality, for the top two: the best is first.
C21_Witness ==
    /\ Ranked /\ returned.err = NoErr /\ returned.query = <<3, 4>> /\ returned.topN = 2
    /\ Len(returned.embeddings) = 3 /\ \A i \in RankedAll : Fits(i)
    /\ Len(returned.sims) = 2 /\ returned.sims[1].Score > returned.sims[2].Score
    /\ returned.sims[1] = RecordOf(2)

\* C27: when a candidate other than the first has another dimensionality
\* than the query's, the ranker succeeds and returns records of scored
\* candidates only, the candidates of the query's dimensionality ranked as
\* if the others were absent (the query not being the zero vector, topN not
\* negative).
C27_MismatchedCandidateIsLeftOut ==
    (/\ Ranked /\ returned.embeddings # <<>> /\ returned.topN >= 0
     /\ ~IsZero(returned.query) /\ Fits(1)
     /\ \E i \in RankedAll : ~Fits(i))
    => /\ returned.err = NoErr
       /\ \A j \in DOMAIN returned.sims : returned.sims[j] # Similarity(<<>>, 0)
       /\ RanksTheTop(returned.sims, {i \in RankedAll : Fits(i)})

\* C28: the ranker returns an error and no record when the list of candidates
\* is empty, when the query's dimensionality differs from the first
\* candidate's, and when the query is the zero vector, and it has then
\* started no goroutine.
C28_RankerChecksBeforeScoring ==
    (/\ Ranked
     /\ \/ returned.embeddings = <<>>
        \/ Len(returned.query) # Len(returned.embeddings[1])
        \/ IsZero(returned.query))
    => returned.err # NoErr /\ returned.sims = <<>> /\ returned.started = 0

\* The zero vector was ranked against two candidates of its dimensionality,
\* and a query against a first candidate of another dimensionality.
C28_Witness ==
    /\ Ranked /\ Len(returned.embeddings) = 2 /\ returned.started = 0
    /\ \/ IsZero(returned.query) /\ Fits(1) /\ Fits(2) /\ returned.err = ErrZeroVector
       \/ ~IsZero(returned.query) /\ ~Fits(1) /\ returned.err = ErrLength

\* C22: NewCollection returns an error and no collection exactly when the
\* name, the document type or the query type is empty, the chunk size is not
\* positive, the overlap is negative or not less than the chunk size, or
\* the embedding function is nil; otherwise it returns an empty collection
\* with 0 <= ChunkOverlap < ChunkSize.
C22_NewCollectionValidates ==
    returned.op = "NewCollection"
    => LET a == returned.args
           invalid == \/ a.name = <<>> \/ a.embeddingDocumentType = <<>>
                      \/ a.embeddingQueryType = <<>> \/ a.chunkSize <= 0
                      \/ a.chunkOverlap < 0 \/ a.chunkOverlap >= a.chunkSize \/ a.funcIsNil
       IN  /\ returned.err # NoErr <=> invalid
           /\ returned.nil <=> invalid
           /\ ~invalid => /\ Length = 0
                          /\ ChunkSize = a.chunkSize /\ ChunkOverlap = a.chunkOverlap
                          /\ 0 <= ChunkOverlap /\ ChunkOverlap < ChunkSize

\* A call whose only fault is an overlap equal to the chunk size has failed,
\* after a call that made a collection of chunk size 2 and overlap 1.
C22_Witness ==
    /\ returned.op = "NewCollection" /\ returned.err # NoErr /\ returned.nil
    /\ returned.args.chunkSize = 1 /\ returned.args.chunkOverlap = 1
    /\ returned.args.name # <<>> /\ returned.args.embeddingDocumentType # <<>>
    /\ returned.args.embeddingQueryType # <<>> /\ ~returned.args.funcIsNil
    /\ ChunkSize = 2 /\ ChunkOverlap = 1

\* The texts of a content: what is left without the separators.
TextsOf(content) == SelectSeq(content, LAMBDA c : c # "\n")

\* The texts of the segments of docID that occur in results, in the order of
\* Document.Segments, each once.
MatchedTexts(results, docID) ==
    LET Matched(i) == \E k \in DOMAIN results :
                         results[k].Document = docID /\ results[k].Segment = i
        F[i \in 0..Len(DocSegments[docID])] ==
            IF i = 0 THEN <<>>
            ELSE IF Matched(i) THEN F[i - 1] \o <<DocSegments[docID][i]>> ELSE F[i - 1]
    IN  F[Len(DocSegments[docID])]

Aggregated == returned.op \in {"AggregateResults", "AggregateResults (568)"}

\* C23: AggregateResults passes to the formatter, for each document, the
\* texts of exactly those of its segments that occur in the results, each
\* once, in the order of Document.Segments and not in the order or the score
\* order of the results.
C23_ContentInStoredOrder ==
    Aggregated
    => \A k \in DOMAIN returned.calls :
          TextsOf(returned.calls[k].content)
              = MatchedTexts(returned.results, returned.calls[k].docID)

\* The greatest similarity of the results of docID.
MaxSimilarity(results, docID) ==
    CHOOSE s \in {results[k].Similarity : k \in {j \in DOMAIN results : results[j].Document = docID}} :
        \A k \in DOMAIN results : results[k].Document = docID => results[k].Similarity <= s

C25_EveryOperationReturns == ret.err \notin {Panic, PanicSlice}

\* The document the caller's pointer leads to, and a successful UpdateDocument
\* of it as the step taken.
Passed == Deref(heap, heap.ptr)
Updated == ret'.op = "UpdateDocument" /\ ret'.err = NoErr

\* The segments of the document id among the results of the searches for
\* MaxSegs segments with the query embedding (3, 4) that succeed (SpecAlias
\* has one document ID).
Found(id) ==
    {r.Segment : r \in UNION {Range(o.results) :
                                o \in {x \in getTopNSimilarDocuments(Response(FALSE, <<<<3, 4>>>>), MaxSegs) :
                                         x.err = NoErr /\ x.results # <<>>
                                         /\ x.results[1].Document.ID = id}}}

\* C26: after AddDocument(d) and a successful UpdateDocument of the same ID
\* with new content, the segments made for the old content are still those
\* of the stored document.
C26_OldSegmentsStay ==
    [][(/\ Updated
        /\ documents[Passed.ID].Segments # <<>>
        /\ Passed.Content # documents[Passed.ID].Content)
       => documents'[Passed.ID].Segments = documents[Passed.ID].Segments]_vars

\* C26 as amended: after a successful UpdateDocument the stored document has
\* the segments of the document that was passed and no others, and the
\* searches find those; the segments the stored document had before stay
\* exactly when the caller passed them along, as when it passes the stored
\* object itself.
C26_StoredSegmentsAreThePassedOnes ==
    /\ [][Updated
          => /\ documents'[Passed.ID].Segments = Passed.Segments
             /\ heap.ptr = heap.index[Passed.ID]
                   => documents'[Passed.ID].Segments = documents[Passed.ID].Segments
             /\ heap.ptr # heap.index[Passed.ID] => documents'[Passed.ID].Segments = <<>>]_vars
    /\ []((ret.op = "UpdateDocument" /\ ret.err = NoErr)
            => Found(Passed.ID) = Range(documents[Passed.ID].Segments))

\* The stored document was updated to the content 2 and still has the segment
\* made for the content 1, which a search finds.
C26_Witness ==
    /\ ret.op = "UpdateDocument" /\ ret.err = NoErr
    /\ documents[<<"a">>] # Nil
    /\ documents[<<"a">>].Content = <<2>>
    /\ Len(documents[<<"a">>].Segments) = 1
    /\ documents[<<"a">>].Segments[1].Text = <<1>>
    /\ \E o \in getTopNSimilarDocuments(Response(FALSE, <<<<3, 4>>>>), 1) :
          o.err = NoErr /\ Len(o.results) = 1 /\ o.results[1].Segment.Text = <<1>>

\* C29: for every document ID, with underscores or digits at its end or
\* not, and every segment index k >= 0, taking "<docID>_<k>" apart at its last
\* underscore gives (docID, k) again, so no two pairs have the same
\* composite ID.
C29_CompositeIDRoundTrips ==
    returned.op = "parseIDAndSegmentIndex"
    => /\ ~returned.parsed.err
       /\ returned.parsed.docID = returned.docID
       /\ returned.parsed.segmentIndex = returned.segmentIndex
       /\ \A docID \in DocIDs : \A k \in 0..MaxIndex :
              SegmentID(docID, k) = returned.id
                  => docID = returned.docID /\ k = returned.segmentIndex

\* The ID "_1_10" of segment 10 of the document "_1" was taken apart.
C29_Witness ==
    /\ returned.op = "parseIDAndSegmentIndex"
    /\ returned.docID = <<"_", "1">> /\ returned.segmentIndex = 10
    /\ returned.id = <<"_", "1", "_", "1", "0">>
    /\ returned.parsed.docID = <<"_", "1">> /\ returned.parsed.segmentIndex = 10

\* C30: each of the three fan-outs joins before its caller returns, every
\* goroutine signals that it is done, on its early returns too, and every
\* call returns in the end: a call that has not returned yet can take a
\* step, and when it returns, all its goroutines are done.
C30_FanOutsJoinAndCallsReturn ==
    /\ fan.running => ENABLED NextFan
    /\ returned.op = "GetTopNSimilarDocumentsForQueries"
          => \A q \in DOMAIN returned.task :
                /\ returned.task[q].at = "done"
                /\ \A i \in DOMAIN returned.task[q].score : returned.task[q].score[i] = "done"
                /\ \A j \in DOMAIN returned.task[q].resolve : returned.task[q].resolve[j] = "done"

\* What the scoring goroutine of candidate i leaves in slot i of a search
\* whose normalized query is norm: its record, or the zero value of the slot
\* when the embedding of the candidate is not of the length of the query.
FanFlat == Flatten(<<<<"a">>>>)
Scored(norm, i) ==
    LET d == dotProduct(norm, FanFlat[i].embedding)
    IN  IF d.err THEN Similarity(<<>>, 0) ELSE Similarity(FanFlat[i].id, d.val)

\* No two candidates of the search have the same score.
DistinctScores(norm) ==
    \A i, j \in DOMAIN FanFlat : i # j => Scored(norm, i).Score # Scored(norm, j).Score

\* The candidates with fewer than topN candidates of a higher score.
TopCandidates(norm, topN) ==
    {i \in DOMAIN FanFlat :
       Cardinality({j \in DOMAIN FanFlat : Scored(norm, j).Score > Scored(norm, i).Score}) < topN}

\* The results of the candidates among the top that were scored, which are
\* the ones whose ID names a stored segment.
TopResults(norm, topN) ==
    {Result(documents[<<"a">>], i - 1, Scored(norm, i).Score) :
       i \in {k \in TopCandidates(norm, topN) : Scored(norm, k).ID # <<>>}}

\* The searches of the call that is running, or of the one that returned.
FanTasks == IF fan.running THEN fan.task
            ELSE IF returned.op = "GetTopNSimilarDocumentsForQueries" THEN returned.task
            ELSE <<>>
FanTopN == IF fan.running THEN fan.topN ELSE returned.topN

\* C31: within one search over a fixed store and query embedding, each
\* scoring goroutine writes only the slot of its own candidate, so the records
\* before the sort are the same whatever the order in which the goroutines
\* finish; and when no two candidates have the same score, the returned list
\* is the same under every interleaving of the scoring and the resolving
\* goroutines: the top candidates that were scored, by falling score.
C31_InterleavingDoesNotShowUnlessTies ==
    \A q \in DOMAIN FanTasks :
       LET task == FanTasks[q]
       IN  /\ task.at = "scoring"
                => \A i \in DOMAIN task.similarities :
                      task.similarities[i] =
                          IF task.score[i] = "done" THEN Scored(task.norm, i)
                          ELSE Similarity(<<>>, 0)
           /\ (task.at = "done" /\ task.norm # <<>> /\ DistinctScores(task.norm))
                => /\ Range(task.results) = TopResults(task.norm, FanTopN)
                   /\ \A j \in 1..(Len(task.results) - 1) :
                         task.results[j].Similarity > task.results[j + 1].Similarity

\* A search over three candidates of three scores returned two results, of
\* which the resolving goroutine of the second had appended first.
C31_Witness ==
    \E q \in DOMAIN FanTasks :
       /\ FanTasks[q].at = "done" /\ FanTasks[q].norm # <<>>
       /\ DistinctScores(FanTasks[q].norm)
       /\ Len(FanFlat) = 3
       /\ Len(FanTasks[q].results) = 2
       /\ FanTasks[q].appended # FanTasks[q].results
       /\ FanTasks[q].results[1].SegmentIndex = 0
       /\ FanTasks[q].results[2].SegmentIndex = 2

Readers == {i \in 1..MaxQueries : Reader(i) \in documentsLock.readers}
Searching == IF multi.running THEN {i \in DOMAIN multi.at : multi.at[i] = "searching"} ELSE {}

\* C33: GetTopNSimilarDocumentsForQueries does not hold the lock of the
\* collection across the searches of its queries: the read lock is held for
\* query i exactly while GetTopNSimilarDocuments runs for query i, and by
\* nobody of the call otherwise, so a writer is kept out during a search
\* only; and every result the call returns is a result of one of its
\* searches, for a document the store held when that search read it.
C33_EachSearchLocksOnItsOwn ==
    /\ Readers = Searching
    /\ documentsLock.writer # None => Searching = {}
    /\ returned.op = "GetTopNSimilarDocumentsForQueries"
          => \A j \in DOMAIN returned.results :
                \E i \in DOMAIN returned.out :
                   /\ returned.out[i].err = NoErr
                   /\ returned.results[j] \in Range(returned.out[i].results)
                   /\ returned.results[j].Document.ID \in returned.out[i].seen

\* A call with two queries returned after a DeleteDocument that committed
\* between its two searches: the searches read different stores, and the
\* merged result holds a document the store no longer has.
C33_Witness ==
    /\ returned.op = "GetTopNSimilarDocumentsForQueries"
    /\ Len(returned.out) = 2
    /\ returned.out[1].err = NoErr /\ returned.out[2].err = NoErr
    /\ returned.out[1].seen # returned.out[2].seen
    /\ \E j \in DOMAIN returned.results : returned.results[j].Document.ID \notin Keys
    /\ \E j \in DOMAIN returned.results : returned.results[j].Document.ID \in Keys

\* The callers that are inside an operation and past its Lock or RLock.
Inside(ops) == {p \in Procs : pc[p].op \in ops /\ pc[p].at \in {"body", "embeddingFunc"}}

\* C34: every public operation releases the lock on every return path,
\* success or error: the write lock is held by a caller exactly while it is
\* inside a writing operation, the read lock exactly by the callers inside a
\* reading one, and so the lock is free whenever no operation is in
\* progress, also after an AddDocument or EmbedDocuments that failed.
C34_LockIsFreeWhenNoOperationRuns ==
    /\ \A p \in Procs : documentsLock.writer = p <=> p \in Inside(WriteOps)
    /\ documentsLock.readers = Inside(ReadOps)
    /\ (\A p \in Procs : pc[p] = Idle) => documentsLock = Unlocked

\* AddDocument has returned the error of the embedding function, no
\* operation is in progress and the lock is free.
C34_Witness ==
    /\ ret.op = "AddDocument" /\ ret.err = ErrGenerator
    /\ \A p \in Procs : pc[p] = Idle
    /\ documentsLock = Unlocked

\* The store holds no segment: no document, or documents without segments.
NoSegments == \A id \in Keys : documents[id].Segments = <<>>

\* C35: GetTopNSimilarDocuments on a collection that holds no segment at all
\* returns an error and no results, whatever the query and topN: the error
\* of the embedding function or of its empty answer, and the error of
\* getTopNSimilarEmbeddings for an empty list otherwise.
C35_SearchOfNoSegmentsFails ==
    (returned.op = "GetTopNSimilarDocuments" /\ NoSegments)
    => /\ returned.results = <<>>
       /\ returned.err = IF returned.resp.err THEN ErrGenerator
                         ELSE IF Len(returned.resp.vecs) = 0 THEN ErrNoQueryEmbedding
                         ELSE ErrNoEmbeddings

\* A search with a query embedding, on a store whose one document has no
\* segments, returned the error of the empty list.
C35_Witness ==
    /\ returned.op = "GetTopNSimilarDocuments" /\ NoSegments /\ Length = 1
    /\ ~returned.resp.err /\ Len(returned.resp.vecs) = 1
    /\ returned.err = ErrNoEmbeddings

\* C36: GetTopNSimilarDocumentsForQueries called with an empty list of
\* queries returns the error for all queries having failed, errNum and the
\* number of queries being both 0, and no result list.
C36_NoQueriesIsAllQueriesFailed ==
    (returned.op = "GetTopNSimilarDocumentsForQueries" /\ returned.resps = <<>>)
    => /\ returned.errNum = 0
       /\ returned.err = ErrAllQueries
       /\ returned.results = <<>>

\* The call with no query returned, on a store that holds segments.
C36_Witness ==
    /\ returned.op = "GetTopNSimilarDocumentsForQueries" /\ returned.resps = <<>>
    /\ returned.err = ErrAllQueries
    /\ ~NoSegments

\* The texts joined by one newline between consecutive ones.
RECURSIVE JoinLines(_)
JoinLines(texts) ==
    IF Len(texts) <= 1 THEN texts
    ELSE <<Head(texts), "\n">> \o JoinLines(Tail(texts))

\* C37: in AggregateResults the content passed to the formatter for a
\* document is the texts of its matched segments joined by exactly one
\* newline between consecutive ones, with no newline before the first and
\* none after the last, whichever of its segments are matched.
C37_ContentIsJoinedByNewlines ==
    returned.op = "AggregateResults"
    => \A k \in DOMAIN returned.calls :
          returned.calls[k].content
              = JoinLines(MatchedTexts(returned.results, returned.calls[k].docID))
====
